---- MODULE Spec2Model ----
(***************************************************************************)
(* State-machine model of the detection core of mevshield:                 *)
(*   - MEVDetector            (detectors/TwoFactorAuthDetector.ts 379-742) *)
(*   - TwoFactorAuthDetector  (detectors/TwoFactorAuthDetector.ts 57-330)  *)
(*   - MultisigProtectionDetector (detectors/MultisigProtectionDetector.ts)*)
(*   - ApprovalDetector       (detectors/ApprovalDetector.ts)              *)
(*   - PhishingDetector       (detectors/PhishingDetector.ts)              *)
(* Each detector is one long-lived instance; one action = one complete     *)
(* handleTransaction call.  Gateway answers, the clock and the transaction *)
(* are inputs of the call.                                                 *)
(***************************************************************************)
EXTENDS Integers, Sequences, FiniteSets, TLC

VARIABLES
    pendingSwaps,     \* MEVDetector.pendingSwaps: insertion-ordered Map, as a sequence of entries
    mevTx,            \* the transaction of the last MEVDetector.handleTransaction call
    mevFeeData,       \* the gateway's getFeeData answer during that call
    mevFindings,      \* the findings list that call returned
    mevRecorded,      \* whether that call reached pendingSwaps.set (decodable swap)
    mevMaxBlock,      \* largest block number of any transaction handled so far (0: none)
    mevSeen,          \* how many distinct transaction hashes have been handled so far
    pending2FATransactions, \* TwoFactorAuthDetector.pending2FATransactions: operationId -> entry
    usersWith2FA,     \* TwoFactorAuthDetector.usersWith2FA
    user2FASettings,  \* TwoFactorAuthDetector.user2FASettings: address -> settings
    now,              \* Math.floor(Date.now() / 1000) of the last TwoFactorAuthDetector call
    tfaTx,            \* the transaction of the last TwoFactorAuthDetector.handleTransaction call
    tfaFindings,      \* the findings list that call returned
    tfaCalls,         \* number of TwoFactorAuthDetector.handleTransaction calls so far
    verifiedAt,       \* per user with settings: time of the latest call that handled an
                      \* AuthenticationSuccessful event of that user (0: none yet)
    multisigCache,    \* MultisigProtectionDetector.multisigCache: address -> {owners, threshold}
    msTx,             \* the transaction of the last MultisigProtectionDetector call
    msGateway,        \* the gateway's answers during that call, per address
    msFindings,       \* the findings list that call returned
    msCalls,          \* number of MultisigProtectionDetector.handleTransaction calls so far
    apTx,             \* the transaction of the last ApprovalDetector.handleTransaction call
    apGateway,        \* the gateway's answers during that call, per address
    apFindings,       \* the findings list that call returned
    phTx,             \* the transaction of the last PhishingDetector.handleTransaction call
    phGateway,        \* the gateway's answers during that call, per address
    phFindings,       \* the findings list that call returned
    seen              \* one earlier call of a stateless detector: its inputs and its result

mevVars == <<pendingSwaps, mevTx, mevFeeData, mevFindings, mevRecorded, mevMaxBlock, mevSeen>>

tfaVars == <<pending2FATransactions, usersWith2FA, user2FASettings, now, tfaTx,
             tfaFindings, tfaCalls, verifiedAt>>

msVars == <<multisigCache, msTx, msGateway, msFindings, msCalls>>

apVars == <<apTx, apGateway, apFindings>>

phVars == <<phTx, phGateway, phFindings>>

vars == <<mevVars, tfaVars, msVars, apVars, phVars, seen>>

None == "none"

\* no transaction handled yet
NoTx == [hash |-> None]

\* Finding.fromObject
Finding(name, alertId, severity, type, metadata) ==
    [name |-> name, alertId |-> alertId, severity |-> severity,
     type |-> type, metadata |-> metadata]

RECURSIVE Flatten(_)
Flatten(ss) == IF ss = <<>> THEN <<>> ELSE Head(ss) \o Flatten(Tail(ss))

Max(a, b) == IF a >= b THEN a ELSE b

\* An address string: the account it denotes and whether the string is all
\* lower case.  String.toLowerCase keeps the account and lowers the case.
Addr(id, lower) == [id |-> id, lower |-> lower]
toLowerCase(a) == [a EXCEPT !.lower = TRUE]

\* ethers' getAddress form of an account, the form in which decoded address
\* results are returned: mixed case, unless the account's hex digits have no letter
DigitOnlyIds == {"1234"}
getAddress(id) == Addr(id, id \in DigitOnlyIds)

(***************************************************************************)
(*                              MEV detector                               *)
(***************************************************************************)

\* DEX_ROUTERS and SWAP_FUNCTIONS (selectors by their function)
V2Routers == {"UNISWAP_V2", "SUSHISWAP", "PANCAKESWAP"}
DEX_ROUTERS == V2Routers \cup {"UNISWAP_V3"}
SWAP_FUNCTIONS == {"swapExactETHForTokens", "swapExactTokensForETH",
                   "swapExactTokensForTokens", "exactInput", "exactOutput"}

\* the sandwich window keeps entries this many blocks behind the current one
WINDOW_BLOCKS == 100

\* slippage < 0.1% and path.length > 4 thresholds
LOW_SLIPPAGE_PER_MILLE == 1
MAX_USUAL_PATH == 4

\* gas price multiple of the average that is reported
GAS_MULTIPLE == 5

\* Map.has / Map.set on the insertion-ordered map: set of an existing key
\* replaces the value and keeps the key's position
MapHas(m, k) == \E i \in DOMAIN m : m[i].hash = k

\* a set that moves an existing key to the end of the order
MapSet_MoveToEnd(m, e) ==
    Append(SelectSeq(m, LAMBDA x : x.hash # e.hash), e)

MapSet(m, e) ==
    IF MapHas(m, e.hash)
    THEN [i \in DOMAIN m |-> IF m[i].hash = e.hash THEN e ELSE m[i]]
    ELSE Append(m, e)

MapGet(m, k) == m[CHOOSE i \in DOMAIN m : m[i].hash = k]

\* MEVDetector.isSwapTransaction
isSwapTransaction(tx) ==
    /\ tx.to # None
    /\ tx.to \in DEX_ROUTERS
    /\ tx.selector \in SWAP_FUNCTIONS

\* decoded arguments of the call data, as MEVDetector.parseSwapData reads them:
\* amountIn / amountOutMin / path before the "could not parse" test
RawSwap(tx) ==
    IF tx.to \in V2Routers
    THEN IF tx.selector = "swapExactETHForTokens"
         THEN [amountIn |-> tx.value, amountOutMin |-> tx.args.a0, path |-> tx.args.path]
         ELSE IF tx.selector \in {"swapExactTokensForETH", "swapExactTokensForTokens"}
              THEN [amountIn |-> tx.args.a0, amountOutMin |-> tx.args.a1, path |-> tx.args.path]
              ELSE [amountIn |-> 0, amountOutMin |-> 0, path |-> <<>>]
    ELSE IF tx.to = "UNISWAP_V3" /\ tx.selector \in {"exactInput", "exactOutput"}
         THEN [amountIn |-> tx.args.a0, amountOutMin |-> tx.args.a1,
               path |-> <<"token0", "token1">>]
         ELSE [amountIn |-> 0, amountOutMin |-> 0, path |-> <<>>]

\* slippage = 1 - amountOutMin / amountIn, kept as the exact fraction num/den
\* (0 when amountOutMin is 0)
Slippage(amountIn, amountOutMin) ==
    IF amountOutMin > 0
    THEN [num |-> amountIn - amountOutMin, den |-> amountIn]
    ELSE [num |-> 0, den |-> 1]

\* the null result of parseSwapData
NoSwapData == [ok |-> FALSE]

\* parseSwapData without the "could not parse" test on amountIn and path
parseSwapData_NoNullTest(tx) ==
    IF tx.to = None \/ tx.selector = None THEN NoSwapData
    ELSE IF ~tx.args.ok THEN NoSwapData
    ELSE LET r == RawSwap(tx) IN
         [ok |-> TRUE, path |-> r.path, amountIn |-> r.amountIn, amountOutMin |-> r.amountOutMin,
          slippage |-> Slippage(r.amountIn, r.amountOutMin)]

\* MEVDetector.parseSwapData: NoSwapData (null) when the data cannot be decoded
parseSwapData(tx) ==
    IF tx.to = None \/ tx.selector = None THEN NoSwapData
    ELSE IF ~tx.args.ok THEN NoSwapData   \* parseTransaction threw (caught), or nothing was decoded
    ELSE LET r == RawSwap(tx) IN
         IF r.amountIn = 0 \/ Len(r.path) = 0 THEN NoSwapData
         ELSE [ok |-> TRUE, path |-> r.path, amountIn |-> r.amountIn, amountOutMin |-> r.amountOutMin,
               slippage |-> Slippage(r.amountIn, r.amountOutMin)]

\* areSimilarPaths without the length test
areSimilarPaths_NoLength(path1, path2) ==
    path1[1] = path2[1] /\ path1[Len(path1)] = path2[Len(path2)]

\* MEVDetector.areSimilarPaths
areSimilarPaths(path1, path2) ==
    IF Len(path1) # Len(path2) THEN FALSE
    ELSE path1[1] = path2[1] /\ path1[Len(path1)] = path2[Len(path2)]

\* cleanupOldSwaps that deletes nothing
cleanupOldSwaps_Never(m, minBlockNumber) == m

\* MEVDetector.cleanupOldSwaps
cleanupOldSwaps(m, minBlockNumber) ==
    SelectSeq(m, LAMBDA e : ~(e.blockNumber < minBlockNumber))

\* currentBlockSwaps without the block filter
currentBlockSwaps_All(m, blockNumber) == m

\* the entries of the window whose block is the current block, in Map order
currentBlockSwaps(m, blockNumber) ==
    SelectSeq(m, LAMBDA e : e.blockNumber = blockNumber)

SandwichFinding(swap1, swap2, swap3) ==
    Finding("Potential Sandwich Attack", "MEV-2", "High", "Suspicious",
            [victimTx |-> swap2.hash, frontrunTx |-> swap1.hash, backrunTx |-> swap3.hash,
             attacker |-> swap1.from, victim |-> swap2.from, tokenPath |-> swap2.tokenPath])

\* a scan that reports only the triple completed by the newest entry
SandwichScan_NewestOnly(cur) ==
    IF Len(cur) >= 3
    THEN LET i == Len(cur) - 2 IN
         IF /\ areSimilarPaths(cur[i].tokenPath, cur[i + 2].tokenPath)
            /\ cur[i].from = cur[i + 2].from
            /\ cur[i].from # cur[i + 1].from
         THEN <<SandwichFinding(cur[i], cur[i + 1], cur[i + 2])>>
         ELSE <<>>
    ELSE <<>>

\* the loop over contiguous triples of currentBlockSwaps
SandwichScan(cur) ==
    IF Len(cur) >= 3
    THEN Flatten([i \in 1..(Len(cur) - 2) |->
            IF /\ areSimilarPaths(cur[i].tokenPath, cur[i + 2].tokenPath)
               /\ cur[i].from = cur[i + 2].from
               /\ cur[i].from # cur[i + 1].from
            THEN <<SandwichFinding(cur[i], cur[i + 1], cur[i + 2])>>
            ELSE <<>>])
    ELSE <<>>

SwapEntry(tx, swapData) ==
    [hash |-> tx.hash, blockNumber |-> tx.blockNumber, from |-> tx.from,
     tokenPath |-> swapData.path, amountIn |-> swapData.amountIn,
     amountOutMin |-> swapData.amountOutMin, slippage |-> swapData.slippage]

\* MEVDetector.checkForSandwichAttacks: the window after the call and the findings pushed
checkForSandwichAttacks(m, tx) ==
    IF ~isSwapTransaction(tx) THEN [swaps |-> m, findings |-> <<>>, recorded |-> FALSE]
    ELSE LET swapData == parseSwapData(tx) IN
         IF ~swapData.ok THEN [swaps |-> m, findings |-> <<>>, recorded |-> FALSE]
         ELSE LET m1 == MapSet(m, SwapEntry(tx, swapData))
                  m2 == cleanupOldSwaps(m1, tx.blockNumber - WINDOW_BLOCKS)
              IN  [swaps |-> m2,
                   findings |-> SandwichScan(currentBlockSwaps(m2, tx.blockNumber)),
                   recorded |-> TRUE]

\* MEVDetector.checkForHighGasPrice; feeData is the gateway's answer:
\* ok = FALSE (the call threw), else gasPrice = 0 (none reported) or the average
checkForHighGasPrice(tx, feeData) ==
    IF tx.gasPrice = 0 \/ ~feeData.ok THEN <<>>
    ELSE IF feeData.gasPrice > 0 /\ tx.gasPrice > feeData.gasPrice * GAS_MULTIPLE
         THEN <<Finding("High Gas Price Transaction", "MEV-1", "Medium", "Suspicious",
                        [from |-> tx.from, to |-> tx.to, gasPrice |-> tx.gasPrice,
                         averageGasPrice |-> feeData.gasPrice])>>
         ELSE <<>>

\* checkForLowSlippageTolerance that also reports a slippage of exactly 0.001
checkForLowSlippageTolerance_Inclusive(tx) ==
    IF ~isSwapTransaction(tx) THEN <<>>
    ELSE LET swapData == parseSwapData(tx) IN
         IF ~swapData.ok THEN <<>>
         ELSE IF swapData.slippage.num * 1000 <= LOW_SLIPPAGE_PER_MILLE * swapData.slippage.den
              THEN <<Finding("Extremely Low Slippage Tolerance", "MEV-3", "Medium", "Suspicious",
                             [from |-> tx.from, to |-> tx.to, amountIn |-> swapData.amountIn,
                              amountOutMin |-> swapData.amountOutMin,
                              slippage |-> swapData.slippage, path |-> swapData.path])>>
              ELSE <<>>

\* MEVDetector.checkForLowSlippageTolerance: slippage < 0.001
checkForLowSlippageTolerance(tx) ==
    IF ~isSwapTransaction(tx) THEN <<>>
    ELSE LET swapData == parseSwapData(tx) IN
         IF ~swapData.ok THEN <<>>
         ELSE IF swapData.slippage.num * 1000 < LOW_SLIPPAGE_PER_MILLE * swapData.slippage.den
              THEN <<Finding("Extremely Low Slippage Tolerance", "MEV-3", "Medium", "Suspicious",
                             [from |-> tx.from, to |-> tx.to, amountIn |-> swapData.amountIn,
                              amountOutMin |-> swapData.amountOutMin,
                              slippage |-> swapData.slippage, path |-> swapData.path])>>
              ELSE <<>>

\* MEVDetector.checkForUnusualSwapRoutes
checkForUnusualSwapRoutes(tx) ==
    IF ~isSwapTransaction(tx) THEN <<>>
    ELSE LET swapData == parseSwapData(tx) IN
         IF ~swapData.ok THEN <<>>
         ELSE IF Len(swapData.path) > MAX_USUAL_PATH
              THEN <<Finding("Unusual Swap Route", "MEV-4", "Medium", "Suspicious",
                             [from |-> tx.from, to |-> tx.to,
                              pathLength |-> Len(swapData.path), path |-> swapData.path])>>
              ELSE <<>>

\* transaction hashes, named in the order of their first appearance
HashNames == <<"h1", "h2", "h3", "h4">>
\* the hash of the transactions that are not decodable swaps
OtherHash == "h0"
HashIndex(h) == IF h = OtherHash THEN 0 ELSE CHOOSE i \in DOMAIN HashNames : HashNames[i] = h

\* MEVDetector.handleTransaction
MEV_handleTransaction(tx, feeData) ==
    LET sw == checkForSandwichAttacks(pendingSwaps, tx) IN
    /\ pendingSwaps' = sw.swaps
    /\ mevFindings' = checkForHighGasPrice(tx, feeData) \o sw.findings
                        \o checkForLowSlippageTolerance(tx) \o checkForUnusualSwapRoutes(tx)
    /\ mevRecorded' = sw.recorded
    /\ mevTx' = tx
    /\ mevFeeData' = feeData
    /\ mevMaxBlock' = Max(mevMaxBlock, tx.blockNumber)
    /\ mevSeen' = Max(mevSeen, HashIndex(tx.hash))
    /\ UNCHANGED <<tfaVars, msVars, apVars, phVars, seen>>

(***************************************************************************)
(*                         Two-factor-auth detector                        *)
(***************************************************************************)

\* HIGH_RISK_OPERATIONS: selector -> operation type (the key, lower-cased)
HIGH_RISK_OPERATIONS ==
    [sel \in {"0xa9059cbb", "0x095ea7b3", "0x23b872dd", "0xa22cb465", "0x7ff36ab5",
              "0x18cbafe5", "0x3e54bacb", "0x6a761202", "0x5c19a95c", "0x3659cfe6"} |->
        CASE sel = "0xa9059cbb" -> "token_transfer"
          [] sel = "0x095ea7b3" -> "token_approve"
          [] sel = "0x23b872dd" -> "nft_transfer"
          [] sel = "0xa22cb465" -> "nft_approve_all"
          [] sel = "0x7ff36ab5" -> "swap_exact_eth_for_tokens"
          [] sel = "0x18cbafe5" -> "swap_exact_tokens_for_eth"
          [] sel = "0x3e54bacb" -> "send_transaction"
          [] sel = "0x6a761202" -> "execute_transaction"
          [] sel = "0x5c19a95c" -> "delegate"
          [] sel = "0x3659cfe6" -> "protocol_upgrade"]

\* amounts of native currency are counted in units of 10^16 wei:
\* parseEther('1.0') and parseEther('0.1')
HIGH_RISK_VALUE_THRESHOLD == 100
DEFAULT_VALUE_THRESHOLD == 10

\* seconds after a successful verification during which no new 2FA is required
VERIFICATION_WINDOW == 1800

\* the two test addresses of initializeDefaultSettings, as written in the source
testAddresses == {Addr("742d", FALSE), Addr("123d", FALSE)}

\* Map.get / Map.has / Map.set / Map.delete on a Map modelled as a function
\* over the keys present
NoEntry == [present |-> FALSE]

\* TwoFactorAuthDetector.identifyOperationType
identifyOperationType(tx) ==
    IF tx.to = None \/ tx.data = "0x" THEN "eth_transfer"
    ELSE IF tx.data \in DOMAIN HIGH_RISK_OPERATIONS THEN HIGH_RISK_OPERATIONS[tx.data]
    ELSE "unknown"

\* TwoFactorAuthDetector.isHighRiskOperation
isHighRiskOperation(tx) ==
    IF tx.to = None \/ tx.data = "0x" THEN FALSE
    ELSE tx.data \in DOMAIN HIGH_RISK_OPERATIONS

\* filterLog that does not tell the three event topics apart
filterLog_AnyKind(tx, kind) == tx.logs

\* txEvent.filterLog(topic)
filterLog(tx, kind) == SelectSeq(tx.logs, LAMBDA e : e.kind = kind)

\* the key under which the settings of an event's user are looked up
SettingsKey_Raw(user) == user

SettingsKey(user) == toLowerCase(user)

\* the AuthenticationRequired loop of process2FAEvents: the pending map after it
RECURSIVE RecordRequired(_, _, _)
RecordRequired(pend, events, tx) ==
    IF events = <<>> THEN pend
    ELSE LET e == Head(events)
             entry == [present |-> TRUE, txHash |-> tx.hash, from |-> e.user,
                       to |-> tx.to, value |-> tx.value,
                       operationType |-> identifyOperationType(tx),
                       timestamp |-> e.timestamp]
         IN  RecordRequired([k \in DOMAIN pend \cup {e.operationId} |->
                                IF k = e.operationId THEN entry ELSE pend[k]],
                            Tail(events), tx)

\* the AuthenticationSuccessful loop: settings and pending map after it
RECURSIVE ApplySuccess(_, _, _, _)
ApplySuccess(st, pend, events, t) ==
    IF events = <<>> THEN [settings |-> st, pending |-> pend]
    ELSE LET e == Head(events)
             key == SettingsKey(e.user)
             st1 == IF key \in DOMAIN st
                    THEN [st EXCEPT ![key].lastVerification = t]
                    ELSE st
             pend1 == [k \in DOMAIN pend \ {e.operationId} |-> pend[k]]
         IN  ApplySuccess(st1, pend1, Tail(events), t)

RequiredFinding(e, tx) ==
    Finding("2FA Authentication Required", "2FA-REQUIRED-1", "Info", "Info",
            [user |-> e.user, operationId |-> e.operationId,
             timestamp |-> e.timestamp, txHash |-> tx.hash])

SuccessFinding(e, tx) ==
    Finding("2FA Authentication Successful", "2FA-SUCCESS-1", "Info", "Info",
            [user |-> e.user, operationId |-> e.operationId, txHash |-> tx.hash])

FailedFinding(e, tx) ==
    Finding("2FA Authentication Failed", "2FA-FAILED-1", "Medium", "Suspicious",
            [user |-> e.user, operationId |-> e.operationId,
             reason |-> e.reason, txHash |-> tx.hash])

\* process2FAEvents whose AuthenticationFailed loop also drops the pending entry
process2FAEvents_FailedClears(st, pend, tx, t) ==
    LET required == filterLog(tx, "required")
        success  == filterLog(tx, "success")
        failed   == filterLog(tx, "failed")
        pend1    == RecordRequired(pend, required, tx)
        after    == ApplySuccess(st, pend1, success, t)
        dropped  == {failed[i].operationId : i \in DOMAIN failed}
    IN  [settings |-> after.settings,
         pending  |-> [k \in DOMAIN after.pending \ dropped |-> after.pending[k]],
         findings |-> [i \in DOMAIN required |-> RequiredFinding(required[i], tx)]
                      \o [i \in DOMAIN success |-> SuccessFinding(success[i], tx)]
                      \o [i \in DOMAIN failed |-> FailedFinding(failed[i], tx)]]

\* process2FAEvents that enrols the user of a success event who has no settings
process2FAEvents_Enrols(st, pend, tx, t) ==
    LET required == filterLog(tx, "required")
        success  == filterLog(tx, "success")
        failed   == filterLog(tx, "failed")
        pend1    == RecordRequired(pend, required, tx)
        after    == ApplySuccess(st, pend1, success, t)
        users    == {toLowerCase(success[i].user) : i \in DOMAIN success}
    IN  [settings |-> [u \in DOMAIN after.settings \cup users |->
                          IF u \in DOMAIN after.settings THEN after.settings[u]
                          ELSE [enabledFor |-> {"all"},
                                valueThreshold |-> DEFAULT_VALUE_THRESHOLD,
                                lastVerification |-> t]],
         pending  |-> after.pending,
         findings |-> [i \in DOMAIN required |-> RequiredFinding(required[i], tx)]
                      \o [i \in DOMAIN success |-> SuccessFinding(success[i], tx)]
                      \o [i \in DOMAIN failed |-> FailedFinding(failed[i], tx)]]

\* process2FAEvents that applies a success event only when its user sent the transaction
process2FAEvents_SenderOnly(st, pend, tx, t) ==
    LET required == filterLog(tx, "required")
        success  == filterLog(tx, "success")
        failed   == filterLog(tx, "failed")
        own      == SelectSeq(success, LAMBDA e : toLowerCase(e.user) = toLowerCase(tx.from))
        pend1    == RecordRequired(pend, required, tx)
        after    == ApplySuccess(st, pend1, own, t)
    IN  [settings |-> after.settings,
         pending  |-> after.pending,
         findings |-> [i \in DOMAIN required |-> RequiredFinding(required[i], tx)]
                      \o [i \in DOMAIN success |-> SuccessFinding(success[i], tx)]
                      \o [i \in DOMAIN failed |-> FailedFinding(failed[i], tx)]]

\* TwoFactorAuthDetector.process2FAEvents at time t
process2FAEvents(st, pend, tx, t) ==
    LET required == filterLog(tx, "required")
        success  == filterLog(tx, "success")
        failed   == filterLog(tx, "failed")
        pend1    == RecordRequired(pend, required, tx)
        after    == ApplySuccess(st, pend1, success, t)
    IN  [settings |-> after.settings,
         pending  |-> after.pending,
         findings |-> [i \in DOMAIN required |-> RequiredFinding(required[i], tx)]
                      \o [i \in DOMAIN success |-> SuccessFinding(success[i], tx)]
                      \o [i \in DOMAIN failed |-> FailedFinding(failed[i], tx)]]

\* the elapsed-time test with >= instead of >
VerificationExpired_Inclusive(t, lastVerification) ==
    t - lastVerification >= VERIFICATION_WINDOW

\* the elapsed-time test against half the window
VerificationExpired_HalfWindow(t, lastVerification) ==
    t - lastVerification > VERIFICATION_WINDOW \div 2

\* timeSinceLastVerification > 1800
VerificationExpired(t, lastVerification) ==
    t - lastVerification > VERIFICATION_WINDOW

\* TwoFactorAuthDetector.checkTransactionFor2FA at time t
checkTransactionFor2FA(st, enabled, tx, t) ==
    LET sender == toLowerCase(tx.from) IN
    IF sender \notin enabled THEN <<>>
    ELSE IF sender \notin DOMAIN st THEN <<>>
    ELSE LET settings == st[sender]
             operationType == identifyOperationType(tx)
             requires2FA ==
                 /\ ("all" \in settings.enabledFor \/ operationType \in settings.enabledFor)
                 /\ tx.value >= settings.valueThreshold
         IN  IF /\ requires2FA
                /\ VerificationExpired(t, settings.lastVerification)
                /\ ~(Len(filterLog(tx, "required")) > 0 \/ Len(filterLog(tx, "success")) > 0)
             THEN <<Finding("Missing 2FA for High-Risk Transaction", "2FA-MISSING-1",
                            "High", "Suspicious",
                            [user |-> tx.from, value |-> tx.value,
                             operationType |-> operationType, txHash |-> tx.hash])>>
             ELSE <<>>

\* checkHighRiskOperations that looks the sender up as written, not lower-cased
checkHighRiskOperations_RawSender(enabled, tx) ==
    IF tx.value < HIGH_RISK_VALUE_THRESHOLD /\ ~isHighRiskOperation(tx) THEN <<>>
    ELSE IF tx.from \notin enabled
         THEN <<Finding("2FA Recommended for User", "2FA-RECOMMENDED-1", "Medium", "Info",
                        [user |-> tx.from, value |-> tx.value,
                         operationType |-> identifyOperationType(tx),
                         txHash |-> tx.hash])>>
         ELSE <<>>

\* TwoFactorAuthDetector.checkHighRiskOperations
checkHighRiskOperations(enabled, tx) ==
    IF tx.value < HIGH_RISK_VALUE_THRESHOLD /\ ~isHighRiskOperation(tx) THEN <<>>
    ELSE IF toLowerCase(tx.from) \notin enabled
         THEN <<Finding("2FA Recommended for User", "2FA-RECOMMENDED-1", "Medium", "Info",
                        [user |-> tx.from, value |-> tx.value,
                         operationType |-> identifyOperationType(tx),
                         txHash |-> tx.hash])>>
         ELSE <<>>

\* TwoFactorAuthDetector.handleTransaction at time t
TFA_handleTransaction(tx, t) ==
    LET ev == process2FAEvents(user2FASettings, pending2FATransactions, tx, t) IN
    /\ user2FASettings' = ev.settings
    /\ pending2FATransactions' = ev.pending
    /\ usersWith2FA' = usersWith2FA
    /\ tfaFindings' = ev.findings
                        \o checkTransactionFor2FA(ev.settings, usersWith2FA, tx, t)
                        \o checkHighRiskOperations(usersWith2FA, tx)
    /\ now' = t
    /\ tfaTx' = tx
    /\ tfaCalls' = tfaCalls + 1
    /\ verifiedAt' = [u \in DOMAIN verifiedAt |->
                         IF \E i \in DOMAIN tx.logs :
                                tx.logs[i].kind = "success" /\ toLowerCase(tx.logs[i].user) = u
                         THEN t ELSE verifiedAt[u]]
    /\ UNCHANGED <<mevVars, msVars, apVars, phVars, seen>>

\* constructor / initializeDefaultSettings; the first call happens at Now0 or later
Now0 == 10000

InitTFADetector ==
    /\ pending2FATransactions = <<>>
    /\ usersWith2FA = {toLowerCase(a) : a \in testAddresses}
    /\ user2FASettings = [a \in {toLowerCase(x) : x \in testAddresses} |->
                            [enabledFor |-> {"all"},
                             valueThreshold |-> DEFAULT_VALUE_THRESHOLD,
                             lastVerification |-> 0]]
    /\ now = Now0
    /\ tfaTx = NoTx
    /\ tfaFindings = <<>>
    /\ tfaCalls = 0
    /\ verifiedAt = [a \in {toLowerCase(x) : x \in testAddresses} |-> 0]

(***************************************************************************)
(* Inputs of the two-factor-auth detector                                  *)
(***************************************************************************)

\* number of handleTransaction calls in a behaviour
MaxCalls == 3

\* seconds between two calls
Deltas == {10, VERIFICATION_WINDOW, 2000}

\* a user with default settings, written in lower and in mixed case, and a user without
U1 == Addr("742d", TRUE)
U1Mixed == Addr("742d", FALSE)
U3 == Addr("9999", TRUE)

OperationIds == {"K1", "K2"}

Required(u, k) == [kind |-> "required", user |-> u, operationId |-> k,
                   timestamp |-> 7, reason |-> ""]
Successful(u, k) == [kind |-> "success", user |-> u, operationId |-> k,
                     timestamp |-> 0, reason |-> ""]
Failed(u, k) == [kind |-> "failed", user |-> u, operationId |-> k,
                 timestamp |-> 0, reason |-> "bad code"]

\* transactions without 2FA events
ProbeTxs ==
    [hash : {"p"}, from : {U1, U1Mixed, U3}, to : {"0xT"},
     value : {DEFAULT_VALUE_THRESHOLD - 1, DEFAULT_VALUE_THRESHOLD, HIGH_RISK_VALUE_THRESHOLD},
     data : {"0x", "0x095ea7b3", "0xdeadbeef"}, logs : {<<>>}]
    \cup
    [hash : {"p"}, from : {U1}, to : {None}, value : {DEFAULT_VALUE_THRESHOLD},
     data : {"0x095ea7b3"}, logs : {<<>>}]

\* transactions that carry 2FA events
EventLogs ==
    UNION {{<<Required(u, k)>>, <<Successful(u, k)>>, <<Failed(u, k)>>,
            <<Successful(u, k), Required(u, k)>>} : u \in {U1Mixed, U3}, k \in OperationIds}
    \cup {<<Required(U3, k), Successful(U1Mixed, k)>> : k \in OperationIds}

EventTxs ==
    [hash : {"e"}, from : {U1, U3}, to : {"0xT"}, value : {DEFAULT_VALUE_THRESHOLD},
     data : {"0x"}, logs : EventLogs]

HandleProbe ==
    /\ tfaCalls < MaxCalls
    /\ \E tx \in ProbeTxs : \E d \in Deltas : TFA_handleTransaction(tx, now + d)

HandleEvents ==
    /\ tfaCalls < MaxCalls
    /\ \E tx \in EventTxs : \E d \in Deltas : TFA_handleTransaction(tx, now + d)

NextTFA == HandleProbe \/ HandleEvents

(***************************************************************************)
(*                       Multisig protection detector                      *)
(***************************************************************************)

\* isMultisigWallet: the bytecode is fetched ("fail": getCode threw) and
\* searched for one of the MULTISIG_INTERFACES selectors
isMultisigWallet(code) ==
    IF code = "fail" THEN FALSE
    ELSE IF code = "0x" THEN FALSE
    ELSE code = "multisig"

\* the configuration thresholds of analyzeMutisigConfiguration
RISKY_THRESHOLD == 1
RISKY_OWNERS == 2
MANY_OWNERS == 10

\* revocations in one transaction above which activity is unusual
MANY_REVOCATIONS == 2

\* Map.set on multisigCache
CacheSet(cache, address, entry) ==
    [a \in DOMAIN cache \cup {address} |-> IF a = address THEN entry ELSE cache[a]]

\* a cache that keeps the entry it already has
CachePut_KeepExisting(cache, address, owners, threshold) ==
    IF address \in DOMAIN cache THEN cache
    ELSE CacheSet(cache, address, [owners |-> owners, threshold |-> threshold])

\* this.multisigCache.set(address, { owners, threshold })
CachePut(cache, address, owners, threshold) ==
    CacheSet(cache, address, [owners |-> owners, threshold |-> threshold])

ConfigFinding(name, alertId, severity, type, address, threshold, owners) ==
    Finding(name, alertId, severity, type,
            [multisigAddress |-> address, threshold |-> threshold,
             ownerCount |-> Len(owners)])

\* MultisigProtectionDetector.analyzeMutisigConfiguration; ans holds the answers
\* of the two read-only calls (the threshold is read only after the owners)
analyzeMutisigConfiguration(cache, address, ans) ==
    LET bothRead  == ans.owners.ok /\ ans.threshold.ok
        owners    == IF ans.owners.ok THEN ans.owners.list ELSE <<>>
        threshold == IF bothRead THEN ans.threshold.value ELSE 0
        cache1    == IF bothRead THEN CachePut(cache, address, owners, threshold) ELSE cache
    IN  [cache |-> cache1,
         findings |->
            IF Len(owners) > 0 /\ threshold > 0
            THEN (IF threshold = RISKY_THRESHOLD /\ Len(owners) > RISKY_OWNERS
                  THEN <<ConfigFinding("Risky Multisig Configuration", "MULTISIG-CONFIG-1",
                                       "Medium", "Suspicious", address, threshold, owners)>>
                  ELSE <<>>)
                 \o
                 (IF Len(owners) > MANY_OWNERS
                  THEN <<ConfigFinding("Complex Multisig Configuration", "MULTISIG-CONFIG-2",
                                       "Info", "Info", address, threshold, owners)>>
                  ELSE <<>>)
            ELSE <<>>]

\* Array.includes
Includes(list, x) == \E i \in DOMAIN list : list[i] = x

\* MultisigProtectionDetector.detectAnomalousActivity; getTransactionHistory asks
\* the gateway for the block number first, and when that call throws the
\* catch block ends the check before any finding is pushed
detectAnomalousActivity(cache, address, tx, ans) ==
    IF ans.blockNumber = "fail" THEN <<>> ELSE
    (IF tx.revocations > MANY_REVOCATIONS
     THEN <<Finding("Unusual Multisig Activity", "MULTISIG-ACTIVITY-1", "Medium", "Suspicious",
                    [multisigAddress |-> address, revocationCount |-> tx.revocations,
                     transactionHash |-> tx.hash])>>
     ELSE <<>>)
    \o
    (IF /\ tx.to = address
        /\ tx.selector = "execTransaction"
        /\ address \in DOMAIN cache
        /\ ~Includes(cache[address].owners, toLowerCase(tx.from))
     THEN <<Finding("Unauthorized Multisig Access Attempt", "MULTISIG-SECURITY-1",
                    "High", "Suspicious",
                    [multisigAddress |-> address, sender |-> tx.from,
                     transactionHash |-> tx.hash])>>
     ELSE <<>>)

\* detectOwnershipChanges that reports the addition/removal pair for the recipient only
detectOwnershipChanges_OnlyRecipient(cache, address, tx) ==
    (IF tx.additions > 0 /\ tx.removals > 0 /\ address = tx.to
     THEN <<Finding("Suspicious Multisig Ownership Changes", "MULTISIG-OWNERSHIP-1",
                    "High", "Suspicious",
                    [multisigAddress |-> address, additionsCount |-> tx.additions,
                     removalsCount |-> tx.removals, transactionHash |-> tx.hash])>>
     ELSE <<>>)
    \o
    Flatten([i \in DOMAIN tx.requirementChanges |->
        IF address \in DOMAIN cache /\ tx.requirementChanges[i] < cache[address].threshold
        THEN <<Finding("Multisig Security Reduction", "MULTISIG-THRESHOLD-1",
                       "High", "Suspicious",
                       [multisigAddress |-> address,
                        oldThreshold |-> cache[address].threshold,
                        newThreshold |-> tx.requirementChanges[i],
                        transactionHash |-> tx.hash])>>
        ELSE <<>>])

\* MultisigProtectionDetector.detectOwnershipChanges
detectOwnershipChanges(cache, address, tx) ==
    (IF tx.additions > 0 /\ tx.removals > 0
     THEN <<Finding("Suspicious Multisig Ownership Changes", "MULTISIG-OWNERSHIP-1",
                    "High", "Suspicious",
                    [multisigAddress |-> address, additionsCount |-> tx.additions,
                     removalsCount |-> tx.removals, transactionHash |-> tx.hash])>>
     ELSE <<>>)
    \o
    Flatten([i \in DOMAIN tx.requirementChanges |->
        IF address \in DOMAIN cache /\ tx.requirementChanges[i] < cache[address].threshold
        THEN <<Finding("Multisig Security Reduction", "MULTISIG-THRESHOLD-1",
                       "High", "Suspicious",
                       [multisigAddress |-> address,
                        oldThreshold |-> cache[address].threshold,
                        newThreshold |-> tx.requirementChanges[i],
                        transactionHash |-> tx.hash])>>
        ELSE <<>>])

\* the loop body with the ownership check run before the activity check
HandleAddress_OwnershipFirst(cache, address, tx, ans) ==
    IF ~isMultisigWallet(ans.code) THEN [cache |-> cache, findings |-> <<>>]
    ELSE LET cfg == analyzeMutisigConfiguration(cache, address, ans) IN
         [cache |-> cfg.cache,
          findings |-> cfg.findings
                       \o (IF tx.additions > 0 \/ tx.removals > 0
                              \/ Len(tx.requirementChanges) > 0
                           THEN detectOwnershipChanges(cfg.cache, address, tx)
                           ELSE <<>>)
                       \o detectAnomalousActivity(cfg.cache, address, tx, ans)]

\* the body of the loop of handleTransaction for one address
HandleAddress(cache, address, tx, ans) ==
    IF ~isMultisigWallet(ans.code) THEN [cache |-> cache, findings |-> <<>>]
    ELSE LET cfg == analyzeMutisigConfiguration(cache, address, ans) IN
         [cache |-> cfg.cache,
          findings |-> cfg.findings
                       \o detectAnomalousActivity(cfg.cache, address, tx, ans)
                       \o (IF tx.additions > 0 \/ tx.removals > 0
                              \/ Len(tx.requirementChanges) > 0
                           THEN detectOwnershipChanges(cfg.cache, address, tx)
                           ELSE <<>>)]

\* the loop over Object.keys(txEvent.addresses)
RECURSIVE HandleAddresses(_, _, _, _)
HandleAddresses(cache, addresses, tx, gw) ==
    IF addresses = <<>> THEN [cache |-> cache, findings |-> <<>>]
    ELSE LET one  == HandleAddress(cache, Head(addresses), tx, gw[Head(addresses)])
             rest == HandleAddresses(one.cache, Tail(addresses), tx, gw)
         IN  [cache |-> rest.cache, findings |-> one.findings \o rest.findings]

\* MultisigProtectionDetector.handleTransaction; gw: address -> gateway answers
MS_handleTransaction(tx, gw) ==
    LET r == HandleAddresses(multisigCache, tx.addresses, tx, gw) IN
    /\ multisigCache' = r.cache
    /\ msFindings' = r.findings
    /\ msTx' = tx
    /\ msGateway' = gw
    /\ msCalls' = msCalls + 1
    /\ UNCHANGED <<mevVars, tfaVars, apVars, phVars, seen>>

InitMSDetector ==
    /\ multisigCache = <<>>
    /\ msTx = NoTx
    /\ msGateway = <<>>
    /\ msFindings = <<>>
    /\ msCalls = 0

(***************************************************************************)
(* Inputs of the multisig detector                                         *)
(***************************************************************************)

\* number of MultisigProtectionDetector.handleTransaction calls in a behaviour
MaxMsCalls == 2

\* a multisig wallet, a second one, and no recipient
W1 == Addr("w1", TRUE)
W2 == Addr("w2", TRUE)
NoAddr == Addr("", TRUE)

\* owner accounts X, Y, Z, an account D whose address has no hex letter, an outsider
X == "aaaa"
Y == "bbbb"
Z == "cccc"
D == "1234"
Outsider == "eeee"

\* owner lists as getOwners() returns them
OwnerLists ==
    {<<getAddress(X), getAddress(Y), getAddress(Z)>>,
     <<getAddress(D), getAddress(Y), getAddress(Z)>>,
     [i \in 1..(MANY_OWNERS + 1) |-> getAddress("ffff")]}

Thresholds == {1, 2, 3}

ReadFailed == [ok |-> FALSE]
OwnersRead(list) == [ok |-> TRUE, list |-> list]
ThresholdRead(n) == [ok |-> TRUE, value |-> n]

\* the gateway's answers for a touched address
\* (blockNumber: whether provider.getBlockNumber answered or threw)
NotMultisig == {[code |-> c, owners |-> ReadFailed, threshold |-> ReadFailed,
                 blockNumber |-> "ok"] : c \in {"fail", "0x", "other"}}
MultisigAnswers ==
    {[code |-> "multisig", owners |-> ReadFailed, threshold |-> ReadFailed,
      blockNumber |-> "ok"]}
    \cup {[code |-> "multisig", owners |-> OwnersRead(l), threshold |-> ReadFailed,
            blockNumber |-> "ok"] : l \in OwnerLists}
    \cup {[code |-> "multisig", owners |-> OwnersRead(l), threshold |-> ThresholdRead(n),
            blockNumber |-> "ok"] : l \in OwnerLists, n \in Thresholds}
    \cup {[code |-> "multisig",
            owners |-> OwnersRead(<<getAddress(X), getAddress(Y), getAddress(Z)>>),
            threshold |-> ThresholdRead(1), blockNumber |-> "fail"]}

MsTx(from, to, selector, addresses, revocations, additions, removals, changes) ==
    [hash |-> "m", from |-> from, to |-> to, selector |-> selector,
     addresses |-> addresses, revocations |-> revocations, additions |-> additions,
     removals |-> removals, requirementChanges |-> changes]

\* direct calls to W1 or elsewhere, with and without the execTransaction selector
ExecTxs ==
    {MsTx(Addr(f, TRUE), to, sel, <<W1>>, 0, 0, 0, <<>>) :
        f \in {X, D, Outsider}, to \in {W1, NoAddr},
        sel \in {"execTransaction", "confirmTransaction"}}

\* transactions that touch W1 and carry owner / requirement / revocation events
ChangeTxs ==
    {MsTx(Addr(X, TRUE), W1, "confirmTransaction", <<W1>>, 0, a[1], a[2], c) :
        a \in {<<0, 0>>, <<1, 1>>, <<1, 0>>}, c \in {<<>>, <<1>>, <<2>>}}
    \cup {MsTx(Addr(X, TRUE), W1, "confirmTransaction", <<W1>>, r, 0, 0, <<>>) :
            r \in {MANY_REVOCATIONS, MANY_REVOCATIONS + 1}}

\* transactions that touch both wallets
TwoWalletTxs ==
    {MsTx(Addr(Outsider, TRUE), W1, "execTransaction", <<W1, W2>>, r, 1, 1, <<1>>) :
        r \in {0, MANY_REVOCATIONS + 1}}

W2Answers ==
    {[code |-> "0x", owners |-> ReadFailed, threshold |-> ReadFailed, blockNumber |-> "ok"]}
    \cup {[code |-> "multisig",
            owners |-> OwnersRead(<<getAddress(X), getAddress(Y), getAddress(Z)>>),
            threshold |-> ThresholdRead(2), blockNumber |-> b] : b \in {"ok", "fail"}}

HandleExec ==
    /\ msCalls < MaxMsCalls
    /\ \E tx \in ExecTxs : \E a \in MultisigAnswers \cup NotMultisig :
          MS_handleTransaction(tx, [w \in {W1} |-> a])

HandleChange ==
    /\ msCalls < MaxMsCalls
    /\ \E tx \in ChangeTxs : \E a \in MultisigAnswers :
          MS_handleTransaction(tx, [w \in {W1} |-> a])

HandleTwoWallets ==
    /\ msCalls < MaxMsCalls
    /\ \E tx \in TwoWalletTxs : \E a \in MultisigAnswers : \E b \in W2Answers :
          MS_handleTransaction(tx, [w \in {W1, W2} |-> IF w = W1 THEN a ELSE b])

NextMS == HandleExec \/ HandleChange \/ HandleTwoWallets

(***************************************************************************)
(* Inputs of the MEV detector                                              *)
(***************************************************************************)

\* a call handles a hash seen before or the next fresh one, among the first n names
HashesNow(n) == {HashNames[i] : i \in {j \in DOMAIN HashNames : j <= mevSeen + 1 /\ j <= n}}

Senders == {"A", "B"}
Paths == {<<"ETH", "USDC">>, <<"USDC", "ETH">>, <<"ETH", "DAI", "USDC">>}

NoArgs == [ok |-> FALSE, a0 |-> 0, a1 |-> 0, path |-> <<>>]

\* a decodable swapExactTokensForTokens call on the V2 router
SwapTx(hash, from, path, blockNumber) ==
    [hash |-> hash, from |-> from, to |-> "UNISWAP_V2",
     selector |-> "swapExactTokensForTokens",
     args |-> [ok |-> TRUE, a0 |-> 1000, a1 |-> 900, path |-> path],
     value |-> 0, blockNumber |-> blockNumber, gasPrice |-> 50]

\* transactions that never reach pendingSwaps.set: no recipient (two gas prices),
\* a swap selector the V2 interface does not decode, undecodable swap data
OtherTxs(blocks) ==
    [hash : {OtherHash}, from : {"A"}, to : {None},
     selector : {"transfer"}, args : {NoArgs},
     value : {0}, blockNumber : blocks, gasPrice : {50, 51}]
    \cup
    [hash : {OtherHash}, from : {"A"}, to : {"UNISWAP_V2"},
     selector : {"exactInput", "swapExactTokensForTokens"}, args : {NoArgs},
     value : {0}, blockNumber : blocks, gasPrice : {50}]

FeeOk(avg) == [ok |-> TRUE, gasPrice |-> avg]
FeeDatas == {[ok |-> FALSE, gasPrice |-> 0], FeeOk(0), FeeOk(10)}

InitMEVDetector ==
    /\ pendingSwaps = <<>>
    /\ mevTx = NoTx
    /\ mevFeeData = FeeOk(0)
    /\ mevFindings = <<>>
    /\ mevRecorded = FALSE
    /\ mevMaxBlock = 0
    /\ mevSeen = 0

(***************************************************************************)
(*                            Approval detector                            *)
(***************************************************************************)

\* Token amounts are kept on a compressed scale that preserves their order:
\* HIGH_VALUE_APPROVAL stands for 10^24 and MAX_UINT256 for 2^256 - 1.
HIGH_VALUE_APPROVAL == 10
MAX_UINT256 == 1000

\* A string that writes a number: its notation and the number written.  Two
\* such strings are the same string only if notation and number agree.
DecimalString(n) == [notation |-> "decimal", number |-> n]
HexString(n) == [notation |-> "0x", number |-> n]

\* value.toString() of a decoded uint256, and BigInt(...) of such a string
valueToString(value) == DecimalString(value)
BigInt(str) == str.number

UNLIMITED_ALLOWANCE == HexString(MAX_UINT256)

KNOWN_MALICIOUS_CONTRACTS == <<Addr("7ea2", TRUE), Addr("a988", TRUE)>>

\* the keys of KNOWN_SAFE_CONTRACTS
KNOWN_SAFE_CONTRACTS ==
    {Addr("7a25", TRUE), Addr("e592", TRUE), Addr("d9e1", TRUE), Addr("7d27", TRUE),
     Addr("398e", TRUE), Addr("3d98", TRUE), Addr("0000", TRUE)}

MULTIPLE_APPROVALS == 4
NEW_CONTRACT_TX_COUNT == 5
MANY_CONTRACT_CALLS == 3
MIN_CALL_INPUT == 10

\* isContract: getCode failed -> false, else code !== '0x'
isContract(code) == IF code = "fail" THEN FALSE ELSE code # "0x"

\* isNewContract: any failed read -> false; no code -> false; else txCount < 5
isNewContract(code, txCount) ==
    IF code = "fail" THEN FALSE
    ELSE IF code = "0x" THEN FALSE
    ELSE IF ~txCount.ok THEN FALSE
    ELSE txCount.n < NEW_CONTRACT_TX_COUNT

\* isKnownSafeContract without the lower-casing of its argument
isKnownSafeContract_CaseSensitive(address) == address \in KNOWN_SAFE_CONTRACTS

isKnownSafeContract(address) == toLowerCase(address) \in KNOWN_SAFE_CONTRACTS

ERC20Finding(name, alertId, severity, type, log) ==
    Finding(name, alertId, severity, type,
            [owner |-> log.owner, spender |-> log.spender, token |-> log.address,
             value |-> valueToString(log.value)])

\* the body of the loop of detectERC20Approvals for one Approval log
ERC20Approval(log, gw) ==
    LET spenderLower == toLowerCase(log.spender)
        ans == gw[log.spender]
    IN  IF valueToString(log.value) = UNLIMITED_ALLOWANCE
        THEN IF Includes(KNOWN_MALICIOUS_CONTRACTS, spenderLower)
             THEN <<ERC20Finding("Approval To Known Malicious Contract",
                                 "APPROVAL-MALICIOUS-1", "Critical", "Exploit", log)>>
             ELSE IF ~isContract(ans.code)
             THEN <<ERC20Finding("Unlimited Approval To EOA",
                                 "APPROVAL-SUSPICIOUS-1", "High", "Suspicious", log)>>
             ELSE IF isNewContract(ans.codeAgain, ans.txCount)
             THEN <<ERC20Finding("Unlimited Approval To New Contract",
                                 "APPROVAL-SUSPICIOUS-2", "High", "Suspicious", log)>>
             ELSE IF ~isKnownSafeContract(log.spender)
             THEN <<ERC20Finding("Unlimited Approval To Unknown Contract",
                                 "APPROVAL-CAUTION-1", "Medium", "Suspicious", log)>>
             ELSE <<>>
        ELSE IF BigInt(valueToString(log.value)) > HIGH_VALUE_APPROVAL
             THEN <<ERC20Finding("High Value Approval",
                                 "APPROVAL-CAUTION-2", "Medium", "Suspicious", log)>>
             ELSE <<>>

detectERC20Approvals(tx, gw) ==
    Flatten([i \in DOMAIN tx.approvalLogs |-> ERC20Approval(tx.approvalLogs[i], gw)])

NFTFinding(name, alertId, severity, type, log) ==
    Finding(name, alertId, severity, type,
            [owner |-> log.owner, operator |-> log.operator, collection |-> log.address])

\* the body of the loop of detectNFTApprovals for one ApprovalForAll log
NFTApproval(log, gw) ==
    LET operatorLower == toLowerCase(log.operator)
        ans == gw[log.operator]
    IN  IF ~log.approved THEN <<>>
        ELSE IF Includes(KNOWN_MALICIOUS_CONTRACTS, operatorLower)
        THEN <<NFTFinding("NFT Approval To Known Malicious Contract",
                          "NFT-APPROVAL-MALICIOUS-1", "Critical", "Exploit", log)>>
        ELSE IF ~isContract(ans.code)
        THEN <<NFTFinding("NFT Approval To EOA",
                          "NFT-APPROVAL-SUSPICIOUS-1", "High", "Suspicious", log)>>
        ELSE IF isNewContract(ans.codeAgain, ans.txCount)
        THEN <<NFTFinding("NFT Approval To New Contract",
                          "NFT-APPROVAL-SUSPICIOUS-2", "High", "Suspicious", log)>>
        ELSE IF ~isKnownSafeContract(log.operator)
        THEN <<NFTFinding("NFT Approval To Unknown Contract",
                          "NFT-APPROVAL-CAUTION-1", "Medium", "Suspicious", log)>>
        ELSE <<>>

\* the ERC721 and the ERC1155 filter use the same topic: both return every
\* ApprovalForAll log, and the loop runs over their concatenation
detectNFTApprovals(tx, gw) ==
    LET approvalForAllERC721Logs == tx.approvalForAllLogs
        approvalForAllERC1155Logs == tx.approvalForAllLogs
        approvalForAllLogs == approvalForAllERC721Logs \o approvalForAllERC1155Logs
    IN  Flatten([i \in DOMAIN approvalForAllLogs |-> NFTApproval(approvalForAllLogs[i], gw)])

\* detectMultipleApprovals that also counts the approvals of the previous transaction
detectMultipleApprovals_Accumulating(tx) ==
    LET before == IF apTx = NoTx THEN 0 ELSE apTx.approveCalls + apTx.setApprovalForAllCalls
        totalApprovals == tx.approveCalls + tx.setApprovalForAllCalls + before
    IN  IF totalApprovals >= MULTIPLE_APPROVALS
        THEN <<Finding("Multiple Approvals in Single Transaction", "APPROVAL-PATTERN-1",
                       "High", "Suspicious",
                       [erc20ApprovalCount |-> tx.approveCalls,
                        nftApprovalCount |-> tx.setApprovalForAllCalls,
                        transactionHash |-> tx.hash])>>
        ELSE <<>>

detectMultipleApprovals(tx) ==
    LET totalApprovals == tx.approveCalls + tx.setApprovalForAllCalls
    IN  IF totalApprovals >= MULTIPLE_APPROVALS
        THEN <<Finding("Multiple Approvals in Single Transaction", "APPROVAL-PATTERN-1",
                       "High", "Suspicious",
                       [erc20ApprovalCount |-> tx.approveCalls,
                        nftApprovalCount |-> tx.setApprovalForAllCalls,
                        transactionHash |-> tx.hash])>>
        ELSE <<>>

detectSuspiciousApprovalPatterns(tx) ==
    LET contractCalls == SelectSeq(tx.traces,
                             LAMBDA trace : /\ trace.type = "call"
                                            /\ trace.inputLength >= MIN_CALL_INPUT)
    IN  (IF tx.approveCalls > 0 /\ (tx.transferCalls > 0 \/ tx.transferFromCalls > 0)
         THEN <<Finding("Approval And Transfer in Same Transaction", "APPROVAL-PATTERN-2",
                        "Medium", "Suspicious",
                        [approvalCount |-> tx.approveCalls,
                         transferCount |-> tx.transferCalls + tx.transferFromCalls,
                         transactionHash |-> tx.hash])>>
         ELSE <<>>)
        \o
        (IF tx.approveCalls > 0 /\ Len(contractCalls) > MANY_CONTRACT_CALLS
         THEN <<Finding("Complex Transaction with Approvals", "APPROVAL-PATTERN-3",
                        "Medium", "Suspicious",
                        [approvalCount |-> tx.approveCalls,
                         callCount |-> Len(contractCalls),
                         transactionHash |-> tx.hash])>>
         ELSE <<>>)

\* ApprovalDetector.handleTransaction: the four checks in order, one findings list
AP_handleTransaction(tx, gw) ==
    /\ apTx' = tx
    /\ apGateway' = gw
    /\ apFindings' = detectERC20Approvals(tx, gw) \o detectNFTApprovals(tx, gw)
                        \o detectMultipleApprovals(tx)
                        \o detectSuspiciousApprovalPatterns(tx)
    /\ UNCHANGED <<mevVars, tfaVars, msVars, phVars>>

InitAPDetector ==
    /\ apTx = NoTx
    /\ apGateway = <<>>
    /\ apFindings = <<>>

(***************************************************************************)
(* Inputs of the approval detector                                         *)
(***************************************************************************)

Holder == getAddress("0abc")
Token == Addr("70ce", TRUE)

\* grantees as decoded from a log (checksum form): a known-malicious contract,
\* a known-safe one and an unlisted one
Grantees == {getAddress("7ea2"), getAddress("7a25"), getAddress("9f9f")}

Amounts == {1, HIGH_VALUE_APPROVAL, HIGH_VALUE_APPROVAL + 1, MAX_UINT256}

CountFailed == [ok |-> FALSE, n |-> 0]
CountRead(n) == [ok |-> TRUE, n |-> n]

\* getCode as seen by isContract, getCode as seen by isNewContract, getTransactionCount
GatewayAnswers ==
    [code : {"fail", "0x", "code"}, codeAgain : {"fail", "0x", "code"},
     txCount : {CountFailed, CountRead(NEW_CONTRACT_TX_COUNT - 1),
                CountRead(NEW_CONTRACT_TX_COUNT)}]

\* the answers of a gateway whose reads all succeed and agree
SteadyAnswers ==
    {a \in GatewayAnswers : a.code # "fail" /\ a.codeAgain = a.code /\ a.txCount.ok}

ApTx(approvalLogs, approvalForAllLogs, approveCalls, setApprovalForAllCalls, transferCalls, transferFromCalls, traces) ==
    [hash |-> "a", approvalLogs |-> approvalLogs,
     approvalForAllLogs |-> approvalForAllLogs, approveCalls |-> approveCalls,
     setApprovalForAllCalls |-> setApprovalForAllCalls,
     transferCalls |-> transferCalls, transferFromCalls |-> transferFromCalls,
     traces |-> traces]

ApprovalLog(spender, value) ==
    [owner |-> Holder, spender |-> spender, value |-> value, address |-> Token]

ApprovalForAllLog(operator, approved) ==
    [owner |-> Holder, operator |-> operator, approved |-> approved, address |-> Token]

CallTrace == [type |-> "call", inputLength |-> MIN_CALL_INPUT]
Traces(n) == [i \in 1..n |-> CallTrace]

\* one or two Approval events of one approve transaction
ERC20Txs ==
    {ApTx(<<ApprovalLog(g, v)>>, <<>>, 1, 0, 0, 0, Traces(1)) :
        g \in Grantees, v \in Amounts}
    \cup
    {ApTx(<<ApprovalLog(g, MAX_UINT256), ApprovalLog(getAddress("9f9f"), v)>>,
          <<>>, 2, 0, 0, 0, Traces(2)) :
        g \in Grantees, v \in {1, MAX_UINT256}}

ApprovalForAllTxs ==
    {ApTx(<<>>, <<ApprovalForAllLog(g, b)>>, 0, 1, 0, 0, Traces(1)) :
        g \in Grantees, b \in BOOLEAN}

\* no events, only the decoded calls and traces
PatternTxs ==
    {ApTx(<<>>, <<>>, a, s, t, f, tr) :
        a \in {0, 1, MULTIPLE_APPROVALS - 1}, s \in {0, 1}, t \in {0, 1}, f \in {0, 1},
        tr \in {Traces(MANY_CONTRACT_CALLS), Traces(MANY_CONTRACT_CALLS + 1),
                Traces(MANY_CONTRACT_CALLS) \o <<[type |-> "create", inputLength |-> MIN_CALL_INPUT],
                                                 [type |-> "call", inputLength |-> MIN_CALL_INPUT - 1]>>}}

HandleERC20 ==
    \E tx \in ERC20Txs : \E a \in SteadyAnswers \cup {[code |-> "fail", codeAgain |-> "code",
                                                      txCount |-> CountFailed]} :
        AP_handleTransaction(tx, [g \in Grantees |-> a]) /\ UNCHANGED seen

HandleApprovalForAll ==
    \E tx \in ApprovalForAllTxs : \E a \in GatewayAnswers :
        AP_handleTransaction(tx, [g \in Grantees |-> a]) /\ UNCHANGED seen

HandlePattern ==
    \E tx \in PatternTxs : AP_handleTransaction(tx, <<>>) /\ UNCHANGED seen

NextAP == HandleERC20 \/ HandleApprovalForAll \/ HandlePattern

(***************************************************************************)
(*                            Phishing detector                            *)
(***************************************************************************)

SUSPICIOUS_SIGNATURES ==
    {"0xa9059cbb", "0x23b872dd", "0xa22cb465", "0x095ea7b3", "0xf309926f",
     "0xac9650d8", "0x2eb2c2d6", "0x5c19a95c"}

KNOWN_HONEYPOT_CONTRACTS == <<Addr("7ea2", TRUE), Addr("a988", TRUE)>>

\* PHISHING_PATTERNS.EXCESSIVE_APPROVAL: ethers.MaxUint256.toString()
EXCESSIVE_APPROVAL == DecimalString(MAX_UINT256)
LONG_DATA_THRESHOLD == 5000

\* gas prices in gwei
FRONTRUN_GAS_PRICE == 500

RECENT_CONTRACT_TX_COUNT == 5
RECENT_ADDRESS_TX_COUNT == 3

\* the gateway resolves an address whatever the case it is written in
Lookup(gw, address) == gw[toLowerCase(address)]

\* PhishingDetector.isRecentlyDeployedContract
isRecentlyDeployedContract(ans) ==
    IF ans.code = "fail" THEN FALSE
    ELSE IF ans.code = "0x" THEN FALSE
    ELSE IF ~ans.txCount.ok THEN FALSE
    ELSE ans.txCount.n < RECENT_CONTRACT_TX_COUNT

\* PhishingDetector.isRecentlyActiveAddress
isRecentlyActiveAddress(ans) ==
    IF ~ans.txCount.ok THEN FALSE ELSE ans.txCount.n < RECENT_ADDRESS_TX_COUNT

checkKnownPhishingAddresses(tx) ==
    LET suspiciousDestinations ==
            SelectSeq(KNOWN_HONEYPOT_CONTRACTS,
                      LAMBDA addr : tx.to # NoAddr /\ toLowerCase(tx.to) = toLowerCase(addr))
    IN  IF Len(suspiciousDestinations) > 0
        THEN <<Finding("Known Phishing Address", "PHISHING-1", "High", "Suspicious",
                       [address |-> tx.to, from |-> tx.from])>>
        ELSE <<>>

\* the body of the loop over the approve / setApprovalForAll calls
TokenOperation(call, tx, gw) ==
    (IF call.name = "approve" /\ valueToString(call.arg1) = EXCESSIVE_APPROVAL
     THEN LET spender == toLowerCase(call.arg0) IN
          IF isRecentlyDeployedContract(Lookup(gw, spender))
          THEN <<Finding("Suspicious Token Approval", "PHISHING-2", "High", "Suspicious",
                         [token |-> call.address, spender |-> spender, owner |-> tx.from,
                          value |-> valueToString(call.arg1)])>>
          ELSE <<>>
     ELSE <<>>)
    \o
    (IF call.name = "setApprovalForAll" /\ call.arg1 = TRUE
     THEN LET operator == toLowerCase(call.arg0) IN
          IF isRecentlyDeployedContract(Lookup(gw, operator))
          THEN <<Finding("Suspicious Collection Approval", "PHISHING-3", "High", "Suspicious",
                         [collection |-> call.address, operator |-> operator,
                          owner |-> tx.from])>>
          ELSE <<>>
     ELSE <<>>)

checkSuspiciousTokenOperations(tx, gw) ==
    LET approvalCalls == SelectSeq(tx.calls,
                             LAMBDA c : c.name \in {"approve", "setApprovalForAll"})
        multicallFunctions == SelectSeq(tx.calls, LAMBDA c : c.name = "multicall")
    IN  Flatten([i \in DOMAIN approvalCalls |-> TokenOperation(approvalCalls[i], tx, gw)])
        \o
        (IF Len(multicallFunctions) > 0 /\ tx.data.length > LONG_DATA_THRESHOLD
         THEN <<Finding("Suspicious Multicall", "PHISHING-4", "Medium", "Suspicious",
                        [contract |-> tx.to, from |-> tx.from,
                         dataLength |-> tx.data.length])>>
         ELSE <<>>)

\* gasPrice 0: no gas price on the transaction
checkForFrontrunning(tx) ==
    IF tx.gasPrice # 0 /\ tx.gasPrice > FRONTRUN_GAS_PRICE
    THEN <<Finding("Potential Frontrunning", "PHISHING-5", "Medium", "Suspicious",
                   [from |-> tx.from, to |-> tx.to, gasPrice |-> tx.gasPrice])>>
    ELSE <<>>

checkSuspiciousDelegation(tx, gw) ==
    LET delegateCalls == SelectSeq(tx.calls, LAMBDA c : c.name = "delegate")
    IN  Flatten([i \in DOMAIN delegateCalls |->
            LET delegatee == toLowerCase(delegateCalls[i].arg0) IN
            IF isRecentlyActiveAddress(Lookup(gw, delegatee))
            THEN <<Finding("Suspicious Delegation", "PHISHING-6", "Medium", "Suspicious",
                           [delegator |-> tx.from, delegatee |-> delegatee,
                            contract |-> delegateCalls[i].address])>>
            ELSE <<>>])

checkInteractionWithRecentContracts(tx, gw) ==
    IF tx.to = NoAddr THEN <<>>
    ELSE IF /\ isRecentlyDeployedContract(Lookup(gw, tx.to))
            /\ tx.data.length > 0
            /\ tx.data.selector \in SUSPICIOUS_SIGNATURES
         THEN <<Finding("Interaction with Suspicious New Contract", "PHISHING-7", "High",
                        "Suspicious",
                        [from |-> tx.from, to |-> tx.to, data |-> tx.data.selector])>>
         ELSE <<>>

\* PhishingDetector.handleTransaction: the five checks in order, one findings list
PH_handleTransaction(tx, gw) ==
    /\ phTx' = tx
    /\ phGateway' = gw
    /\ phFindings' = checkKnownPhishingAddresses(tx) \o checkSuspiciousTokenOperations(tx, gw)
                        \o checkForFrontrunning(tx) \o checkSuspiciousDelegation(tx, gw)
                        \o checkInteractionWithRecentContracts(tx, gw)
    /\ UNCHANGED <<mevVars, tfaVars, msVars, apVars>>

InitPHDetector ==
    /\ phTx = NoTx
    /\ phGateway = <<>>
    /\ phFindings = <<>>

(***************************************************************************)
(* Repeated calls of the stateless detectors                               *)
(***************************************************************************)

NothingSeen == [detector |-> "none"]

\* the call just made is kept as the one to compare later calls with
Remember(detector, tx, gw, findings) ==
    seen' = [detector |-> detector, tx |-> tx, gw |-> gw, findings |-> findings,
             callsSince |-> "none"]

\* the call just made is another call of the detector after the remembered one
Later(detector) ==
    seen' = IF seen.detector = detector
            THEN [seen EXCEPT !.callsSince = IF @ = "none" THEN "one" ELSE "more"]
            ELSE seen

PhCall(name, arg0, arg1) == [name |-> name, arg0 |-> arg0, arg1 |-> arg1, address |-> Token]

PhTx(to, selector, length, gasPrice, calls) ==
    [hash |-> "p", to |-> to, from |-> Holder, data |-> [selector |-> selector, length |-> length],
     gasPrice |-> gasPrice, calls |-> calls]

Fresh == getAddress("9f9f")

RepeatPhTxs ==
    {PhTx(to, sel, LONG_DATA_THRESHOLD + 1, FRONTRUN_GAS_PRICE + 1, calls) :
        to \in {getAddress("7ea2"), Fresh},
        sel \in {"0x095ea7b3", "0xdeadbeef"},
        calls \in {<<PhCall("approve", Fresh, MAX_UINT256), PhCall("multicall", Fresh, 0)>>,
                   <<PhCall("setApprovalForAll", Fresh, TRUE), PhCall("delegate", Fresh, 0)>>}}
    \cup {PhTx(NoAddr, "0x095ea7b3", 10, FRONTRUN_GAS_PRICE, <<>>)}

\* a recently deployed contract, or a gateway whose lookups fail
RepeatPhGateways ==
    {[a \in {toLowerCase(getAddress("7ea2")), toLowerCase(Fresh)} |-> ans] :
        ans \in {[code |-> "code", txCount |-> CountRead(RECENT_ADDRESS_TX_COUNT - 1)],
                 [code |-> "fail", txCount |-> CountFailed]}}

RepeatApTxs ==
    {ApTx(<<ApprovalLog(g, MAX_UINT256), ApprovalLog(Fresh, HIGH_VALUE_APPROVAL + 1)>>,
          <<ApprovalForAllLog(g, TRUE)>>, 2, 1, 1, 0, Traces(MANY_CONTRACT_CALLS + 1)) :
        g \in Grantees}
    \cup {ApTx(<<>>, <<>>, 2, 0, 0, 0, Traces(1))}

RepeatApGateways ==
    {[g \in Grantees |-> ans] :
        ans \in {[code |-> "code", codeAgain |-> "code",
                  txCount |-> CountRead(NEW_CONTRACT_TX_COUNT - 1)],
                 [code |-> "0x", codeAgain |-> "0x", txCount |-> CountRead(0)],
                 [code |-> "fail", codeAgain |-> "fail", txCount |-> CountFailed]}}

RememberApproval ==
    \E tx \in RepeatApTxs : \E gw \in RepeatApGateways :
        AP_handleTransaction(tx, gw) /\ Remember("approval", tx, gw, apFindings')

RepeatApproval ==
    \E tx \in RepeatApTxs : \E gw \in RepeatApGateways :
        AP_handleTransaction(tx, gw) /\ Later("approval")

RememberPhishing ==
    \E tx \in RepeatPhTxs : \E gw \in RepeatPhGateways :
        PH_handleTransaction(tx, gw) /\ Remember("phishing", tx, gw, phFindings')

RepeatPhishing ==
    \E tx \in RepeatPhTxs : \E gw \in RepeatPhGateways :
        PH_handleTransaction(tx, gw) /\ Later("phishing")

NextRepeat == RememberApproval \/ RepeatApproval \/ RememberPhishing \/ RepeatPhishing

Init ==
    /\ InitMEVDetector /\ InitTFADetector /\ InitMSDetector /\ InitAPDetector
    /\ InitPHDetector /\ seen = NothingSeen

SpecTFA == Init /\ [][NextTFA]_vars

SpecMS == Init /\ [][NextMS]_vars

SpecAP == Init /\ [][NextAP]_vars

SpecRepeat == Init /\ [][NextRepeat]_vars

\* --- SpecPH: calls to a recipient under every selector and gateway answer ---
\* the eight listed selectors, one that is not listed, and empty call data
PhDatas ==
    {[selector |-> sel, length |-> 10] : sel \in SUSPICIOUS_SIGNATURES \cup {"0xdeadbeef"}}
    \cup {[selector |-> "", length |-> 0]}

PhRecipients == {NoAddr, Fresh, getAddress("7ea2")}

\* getCode: bytecode, none, or a failed call; getTransactionCount around the limit
PhGateways ==
    {[a \in {toLowerCase(getAddress("7ea2")), toLowerCase(Fresh)} |->
            [code |-> code, txCount |-> count]] :
        code \in {"code", "0x", "fail"},
        count \in {CountRead(RECENT_CONTRACT_TX_COUNT - 1), CountRead(RECENT_CONTRACT_TX_COUNT),
                   CountFailed}}

HandleRecipientCall ==
    \E to \in PhRecipients : \E data \in PhDatas : \E gw \in PhGateways :
        /\ PH_handleTransaction([hash |-> "p", to |-> to, from |-> Holder, data |-> data,
                                 gasPrice |-> FRONTRUN_GAS_PRICE, calls |-> <<>>], gw)
        /\ UNCHANGED seen

NextPH == HandleRecipientCall

SpecPH == Init /\ [][NextPH]_vars

\* --- SpecMEV: swaps of two neighbouring blocks, all senders and paths ---
RuleBlock == 1
RuleSwapTxs ==
    {SwapTx(h, f, p, RuleBlock) : h \in HashesNow(4), f \in Senders, p \in Paths}
    \cup {SwapTx(h, "B", <<"ETH", "USDC">>, RuleBlock + 1) : h \in HashesNow(4)}

HandleSwap == \E tx \in RuleSwapTxs : MEV_handleTransaction(tx, FeeOk(10))

HandleOther ==
    \E tx \in OtherTxs({RuleBlock}) : \E feeData \in FeeDatas : MEV_handleTransaction(tx, feeData)

NextMEV == HandleSwap \/ HandleOther

SpecMEV == Init /\ [][NextMEV]_vars

\* --- SpecMEVWindow: swaps of blocks that straddle the 100-block window ---
\* highest block number of the model
MaxBlock == 151
WindowBlocks == {1, 1 + WINDOW_BLOCKS, MaxBlock}
WindowSwapTxs ==
    {SwapTx(h, f, <<"ETH", "USDC">>, b) : h \in HashesNow(3), f \in Senders, b \in WindowBlocks}

HandleWindowSwap == \E tx \in WindowSwapTxs : MEV_handleTransaction(tx, FeeOk(10))

HandleWindowOther ==
    \E tx \in OtherTxs(WindowBlocks) : \E feeData \in FeeDatas : MEV_handleTransaction(tx, feeData)

NextMEVWindow == HandleWindowSwap \/ HandleWindowOther

SpecMEVWindow == Init /\ [][NextMEVWindow]_vars

\* --- SpecMEVDecode: what is decoded from a transaction, and what is not ---
DecodeBlocks == {1, WINDOW_BLOCKS + 2}

SwapArgs(a0, a1, path) == [ok |-> TRUE, a0 |-> a0, a1 |-> a1, path |-> path]

MevTx(hash, to, selector, args, value, blockNumber, gasPrice) ==
    [hash |-> hash, from |-> "A", to |-> to, selector |-> selector, args |-> args,
     value |-> value, blockNumber |-> blockNumber, gasPrice |-> gasPrice]

\* swaps that decode: amountOutMin zero, below amountIn (by 10% and by exactly
\* 0.1%), equal to and above amountIn
DecodableTxs ==
    {MevTx(h, "UNISWAP_V2", "swapExactTokensForTokens",
           SwapArgs(1000, out, <<"ETH", "USDC">>), 0, b, 50) :
        h \in HashesNow(2), out \in {0, 900, 999, 1000, 1500}, b \in DecodeBlocks}
    \cup
    {MevTx(h, "SUSHISWAP", "swapExactETHForTokens",
           SwapArgs(1500, 0, <<"ETH", "USDC">>), 1000, b, 50) :
        h \in HashesNow(2), b \in DecodeBlocks}
    \cup
    {MevTx(h, "UNISWAP_V3", "exactOutput", SwapArgs(1000, 3000, <<>>), 0, b, 50) :
        h \in HashesNow(2), b \in DecodeBlocks}

\* transactions that are no swap, or whose swap data does not decode
UndecodableTxs ==
    {MevTx(OtherHash, to, sel, args, v, b, 51) :
        to \in {None}, sel \in {"swapExactTokensForTokens"},
        args \in {SwapArgs(1000, 900, <<"ETH", "USDC">>)}, v \in {0}, b \in DecodeBlocks}
    \cup
    {MevTx(OtherHash, "OTHER", "swapExactTokensForTokens",
           SwapArgs(1000, 900, <<"ETH", "USDC">>), 0, b, 51) : b \in DecodeBlocks}
    \cup
    {MevTx(OtherHash, "UNISWAP_V2", sel, SwapArgs(1000, 900, <<"ETH", "USDC">>), 0, b, 51) :
        sel \in {"transfer", "exactInput"}, b \in DecodeBlocks}
    \cup
    {MevTx(OtherHash, "UNISWAP_V2", "swapExactTokensForTokens", args, 0, b, 51) :
        args \in {NoArgs, SwapArgs(0, 900, <<"ETH", "USDC">>), SwapArgs(1000, 900, <<>>)},
        b \in DecodeBlocks}
    \cup
    {MevTx(OtherHash, "UNISWAP_V2", "swapExactETHForTokens",
           SwapArgs(900, 0, <<"ETH", "USDC">>), 0, b, 51) : b \in DecodeBlocks}

HandleDecodable == \E tx \in DecodableTxs : MEV_handleTransaction(tx, FeeOk(10))

HandleUndecodable ==
    \E tx \in UndecodableTxs : \E feeData \in FeeDatas : MEV_handleTransaction(tx, feeData)

NextMEVDecode == HandleDecodable \/ HandleUndecodable

SpecMEVDecode == Init /\ [][NextMEVDecode]_vars

(***************************************************************************)
(* Properties of the MEV detector                                          *)
(***************************************************************************)

\* the MEV-2 findings of the last call, in the order returned
MEV2Findings == SelectSeq(mevFindings, LAMBDA f : f.alertId = "MEV-2")

\* index triples <<i, j, k>> of the window that the sandwich rule of the
\* specification selects for the block of the last call
RuleTriples ==
    {t \in (DOMAIN pendingSwaps) \X (DOMAIN pendingSwaps) \X (DOMAIN pendingSwaps) :
        LET s1 == pendingSwaps[t[1]]
            s2 == pendingSwaps[t[2]]
            s3 == pendingSwaps[t[3]]
            N  == mevTx.blockNumber
        IN  /\ t[1] < t[2] /\ t[2] < t[3]
            /\ s1.blockNumber = N /\ s2.blockNumber = N /\ s3.blockNumber = N
            /\ \A x \in DOMAIN pendingSwaps :
                  (t[1] < x /\ x < t[3] /\ x # t[2]) => pendingSwaps[x].blockNumber # N
            /\ Len(s1.tokenPath) = Len(s3.tokenPath)
            /\ Head(s1.tokenPath) = Head(s3.tokenPath)
            /\ s1.tokenPath[Len(s1.tokenPath)] = s3.tokenPath[Len(s3.tokenPath)]
            /\ s1.from = s3.from
            /\ s1.from # s2.from}

Names(f, t) ==
    /\ f.severity = "High"
    /\ f.metadata.frontrunTx = pendingSwaps[t[1]].hash
    /\ f.metadata.victimTx = pendingSwaps[t[2]].hash
    /\ f.metadata.backrunTx = pendingSwaps[t[3]].hash
    /\ f.metadata.attacker = pendingSwaps[t[1]].from
    /\ f.metadata.victim = pendingSwaps[t[2]].from

\* C1: after the swaps A [ETH,USDC], B [ETH,USDC], A [USDC,ETH] of one block
\* were handled in this order from an empty window, the third call returns
\* exactly one High MEV-2 finding: victim B's transaction, legs A's two.
C1_TestTriple ==
    ( /\ mevRecorded
      /\ Len(pendingSwaps) = 3
      /\ \A i \in 1..3 : pendingSwaps[i].blockNumber = mevTx.blockNumber
      /\ pendingSwaps[1].from = "A" /\ pendingSwaps[1].tokenPath = <<"ETH", "USDC">>
      /\ pendingSwaps[2].from = "B" /\ pendingSwaps[2].tokenPath = <<"ETH", "USDC">>
      /\ pendingSwaps[3].from = "A" /\ pendingSwaps[3].tokenPath = <<"USDC", "ETH">>
      /\ mevTx.hash = pendingSwaps[3].hash )
    => /\ Len(MEV2Findings) = 1
       /\ Names(MEV2Findings[1], <<1, 2, 3>>)

\* C2: a call that records a swap in block N returns a MEV-2 finding for a
\* triple iff the triple is three consecutive block-N entries of the window, in
\* recording order, whose outer paths have equal length, first and last token,
\* whose outer senders are equal and differ from the middle sender; the finding
\* names the middle entry as victim and the outer ones as front-run and back-run.
C2_SandwichRule ==
    mevRecorded =>
        /\ \A t \in RuleTriples : \E i \in DOMAIN MEV2Findings : Names(MEV2Findings[i], t)
        /\ \A i \in DOMAIN MEV2Findings : \E t \in RuleTriples : Names(MEV2Findings[i], t)
        /\ Len(MEV2Findings) = Cardinality(RuleTriples)

\* a finding was returned for a triple whose entries are separated in the
\* window by an entry of another block
C2_Witness ==
    /\ mevRecorded
    /\ \E t \in RuleTriples : t[3] - t[1] > 2
    /\ Len(MEV2Findings) >= 1

\* C3 as stated: every entry of the window is at most 100 blocks below the
\* largest block number of any transaction handled so far.
C3_WindowAgainstNewest ==
    \A i \in DOMAIN pendingSwaps :
        pendingSwaps[i].blockNumber >= mevMaxBlock - WINDOW_BLOCKS

\* C3 amended: after a call that records a swap at block N, every entry of the
\* window has blockNumber >= N - 100.
C3_WindowAgainstCurrent ==
    mevRecorded =>
        \A i \in DOMAIN pendingSwaps :
            pendingSwaps[i].blockNumber >= mevTx.blockNumber - WINDOW_BLOCKS

\* a swap at the highest block was recorded, an entry 50 blocks older was kept
\* and an entry seen earlier is gone
C3_Witness ==
    /\ mevRecorded
    /\ mevTx.blockNumber = MaxBlock
    /\ mevSeen = 3
    /\ Len(pendingSwaps) = 2
    /\ \E i \in DOMAIN pendingSwaps : pendingSwaps[i].blockNumber = 1 + WINDOW_BLOCKS

\* the block numbers of the entries a MEV-2 finding names
LegBlocks(f) ==
    {MapGet(pendingSwaps, h).blockNumber :
        h \in {f.metadata.frontrunTx, f.metadata.victimTx, f.metadata.backrunTx}}

\* C4 as stated: once a transaction at block C was handled, no finding of that
\* or a later call names an entry with blockNumber < C - 100.
C4_NoLegBelowHandled ==
    \A i \in DOMAIN MEV2Findings :
        \A b \in LegBlocks(MEV2Findings[i]) : b >= mevMaxBlock - WINDOW_BLOCKS

\* C4 amended: every entry a MEV-2 finding names is in the window and has the
\* block number of the transaction of the call that returned the finding.
C4_LegsInCurrentBlock ==
    \A i \in DOMAIN MEV2Findings :
        LET f == MEV2Findings[i] IN
        /\ \A h \in {f.metadata.frontrunTx, f.metadata.victimTx, f.metadata.backrunTx} :
              MapHas(pendingSwaps, h)
        /\ LegBlocks(f) = {mevTx.blockNumber}

\* a finding returned at the highest block, after the window held older entries
C4_Witness ==
    /\ Len(MEV2Findings) >= 1
    /\ mevTx.blockNumber = MaxBlock
    /\ mevMaxBlock = MaxBlock

(***************************************************************************)
(* Properties of the two-factor-auth detector                              *)
(***************************************************************************)

FindingsWith(findings, alertId) == SelectSeq(findings, LAMBDA f : f.alertId = alertId)

\* the condition of the enforcement check as the specification states it, for
\* the last call: the settings are those the check read, now is the call's time
MustHave2FA ==
    LET sender == toLowerCase(tfaTx.from) IN
    /\ sender \in usersWith2FA
    /\ sender \in DOMAIN user2FASettings
    /\ tfaTx.value >= user2FASettings[sender].valueThreshold
    /\ \/ "all" \in user2FASettings[sender].enabledFor
       \/ identifyOperationType(tfaTx) \in user2FASettings[sender].enabledFor
    /\ now - user2FASettings[sender].lastVerification > 1800
    /\ \A i \in DOMAIN tfaTx.logs : tfaTx.logs[i].kind \notin {"required", "success"}

\* C5: a call returns exactly one High 2FA-MISSING-1 finding iff the sender is
\* 2FA-enabled with settings, value >= valueThreshold, the operation is covered
\* by enabledFor, more than 1800 s passed since lastVerification and the
\* transaction carries no required/successful event; otherwise none.
C5_Enforcement ==
    tfaCalls > 0 =>
        LET missing == FindingsWith(tfaFindings, "2FA-MISSING-1") IN
        /\ Len(missing) = IF MustHave2FA THEN 1 ELSE 0
        /\ \A i \in DOMAIN missing : missing[i].severity = "High"

\* one finding for a sender verified 2000 s before the call
C5_Witness ==
    /\ tfaCalls > 0
    /\ Len(FindingsWith(tfaFindings, "2FA-MISSING-1")) = 1
    /\ toLowerCase(tfaTx.from) \in DOMAIN user2FASettings
    /\ now - user2FASettings[toLowerCase(tfaTx.from)].lastVerification = 2000

\* C6: after a call whose transaction carries AuthenticationSuccessful(U, K) the
\* pending map has no entry for K, U's lastVerification is the time of the call
\* if U had settings, no settings entry is created, and one Info 2FA-SUCCESS-1
\* finding is returned for the event.
C6_SuccessEvent ==
    [][ tfaCalls' = tfaCalls + 1 =>
          LET success == filterLog(tfaTx', "success")
              found   == FindingsWith(tfaFindings', "2FA-SUCCESS-1")
          IN  /\ DOMAIN user2FASettings' = DOMAIN user2FASettings
              /\ Len(found) = Len(success)
              /\ \A i \in DOMAIN success :
                    LET e == success[i] IN
                    /\ e.operationId \notin DOMAIN pending2FATransactions'
                    /\ toLowerCase(e.user) \in DOMAIN user2FASettings =>
                          user2FASettings'[toLowerCase(e.user)].lastVerification = now'
                    /\ found[i].severity = "Info"
                    /\ found[i].metadata.user = e.user
                    /\ found[i].metadata.operationId = e.operationId ]_vars

\* a success event of a user with settings was handled while another operation
\* stays pending
C6_Witness ==
    /\ tfaCalls > 0
    /\ \E i \in DOMAIN tfaTx.logs :
          /\ tfaTx.logs[i].kind = "success"
          /\ toLowerCase(tfaTx.logs[i].user) \in DOMAIN user2FASettings
          /\ user2FASettings[toLowerCase(tfaTx.logs[i].user)].lastVerification = now
          /\ tfaTx.logs[i].operationId \notin DOMAIN pending2FATransactions
    /\ DOMAIN pending2FATransactions # {}

(***************************************************************************)
(* Properties of the multisig detector                                     *)
(***************************************************************************)

XYZ == <<getAddress(X), getAddress(Y), getAddress(Z)>>

\* the last step was a MultisigProtectionDetector.handleTransaction call
MsCall == msCalls' = msCalls + 1

\* address w was touched by the call's transaction and recognized as a multisig
Recognized(w) ==
    /\ Includes(msTx'.addresses, w)
    /\ isMultisigWallet(msGateway'[w].code)

\* C7: with {owners: [X, Y, Z], threshold: 1} cached for recognized multisig W
\* (and reported again during the call), a direct execTransaction call to W
\* returns exactly one High MULTISIG-SECURITY-1 finding when the sender is not
\* one of X, Y, Z and none when the sender is X.
C7_UnauthorizedAccess ==
    [][ ( /\ MsCall
          /\ W1 \in DOMAIN multisigCache
          /\ multisigCache[W1] = [owners |-> XYZ, threshold |-> 1]
          /\ Recognized(W1)
          /\ msGateway'[W1].owners = OwnersRead(XYZ)
          /\ msGateway'[W1].threshold = ThresholdRead(1)
          /\ msTx'.to = W1
          /\ msTx'.selector = "execTransaction" )
        => LET found == FindingsWith(msFindings', "MULTISIG-SECURITY-1") IN
           /\ msTx'.from.id \notin {X, Y, Z} =>
                 Len(found) = 1 /\ found[1].severity = "High"
           /\ msTx'.from.id = X => Len(found) = 0 ]_vars

\* C8: if the cache holds threshold T_old for recognized multisig W before a
\* call whose transaction touches W and carries RequirementChange(n), n < T_old,
\* the call returns a High MULTISIG-THRESHOLD-1 finding with oldThreshold = T_old
\* and newThreshold = n, whatever the gateway reports during the call.
C8_ThresholdDecrease ==
    [][ ( /\ MsCall
          /\ W1 \in DOMAIN multisigCache
          /\ Recognized(W1) )
        => \A i \in DOMAIN msTx'.requirementChanges :
              msTx'.requirementChanges[i] < multisigCache[W1].threshold =>
                 \E j \in DOMAIN msFindings' :
                    /\ msFindings'[j].alertId = "MULTISIG-THRESHOLD-1"
                    /\ msFindings'[j].severity = "High"
                    /\ msFindings'[j].metadata.multisigAddress = W1
                    /\ msFindings'[j].metadata.oldThreshold = multisigCache[W1].threshold
                    /\ msFindings'[j].metadata.newThreshold = msTx'.requirementChanges[i] ]_vars

\* C9 as stated: every call that touches a recognized multisig W rewrites the
\* entry of W, which afterwards holds nothing older than what was read in the
\* call, also when one of the two reads fails.
C9_RefreshOnEveryTouch ==
    [][ MsCall =>
          \A w \in {W1, W2} : Recognized(w) =>
              /\ w \in DOMAIN multisigCache'
              /\ msGateway'[w].owners.ok =>
                    multisigCache'[w].owners = msGateway'[w].owners.list
              /\ msGateway'[w].threshold.ok =>
                    multisigCache'[w].threshold = msGateway'[w].threshold.value ]_vars

\* C9 amended: a call that touches a recognized multisig W and reads both its
\* owners and its threshold sets the entry of W to exactly what was read; when
\* a read fails the entry of W is left as it was (absent or stale).
C9_RefreshWhenBothRead ==
    [][ MsCall =>
          \A w \in {W1, W2} : Recognized(w) =>
              IF msGateway'[w].owners.ok /\ msGateway'[w].threshold.ok
              THEN /\ w \in DOMAIN multisigCache'
                   /\ multisigCache'[w] = [owners |-> msGateway'[w].owners.list,
                                           threshold |-> msGateway'[w].threshold.value]
              ELSE /\ (w \in DOMAIN multisigCache') = (w \in DOMAIN multisigCache)
                   /\ w \in DOMAIN multisigCache => multisigCache'[w] = multisigCache[w] ]_vars

\* the second touch of W1 read both values and the entry holds them
C9_Witness ==
    /\ msCalls = 2
    /\ Includes(msTx.addresses, W1)
    /\ isMultisigWallet(msGateway[W1].code)
    /\ msGateway[W1].owners.ok /\ msGateway[W1].threshold.ok
    /\ W1 \in DOMAIN multisigCache
    /\ multisigCache[W1] = [owners |-> msGateway[W1].owners.list,
                            threshold |-> msGateway[W1].threshold.value]

(***************************************************************************)
(* Properties of the approval detector                                     *)
(***************************************************************************)

ERC20ClassificationIds ==
    {"APPROVAL-MALICIOUS-1", "APPROVAL-SUSPICIOUS-1", "APPROVAL-SUSPICIOUS-2",
     "APPROVAL-CAUTION-1"}

\* what a finding says about which approval it classifies, and how
Classification(alertId, severity, type, spender) ==
    [alertId |-> alertId, severity |-> severity, type |-> type, spender |-> spender]

\* the classification the priority order assigns to a maximum-value approval
\* whose grantee the gateway answers for steadily
ExpectedClassification(log, ans) ==
    IF toLowerCase(log.spender) \in {KNOWN_MALICIOUS_CONTRACTS[i] :
                                        i \in DOMAIN KNOWN_MALICIOUS_CONTRACTS}
    THEN <<Classification("APPROVAL-MALICIOUS-1", "Critical", "Exploit", log.spender)>>
    ELSE IF ans.code = "0x"
    THEN <<Classification("APPROVAL-SUSPICIOUS-1", "High", "Suspicious", log.spender)>>
    ELSE IF ans.txCount.n < 5
    THEN <<Classification("APPROVAL-SUSPICIOUS-2", "High", "Suspicious", log.spender)>>
    ELSE IF toLowerCase(log.spender) \notin KNOWN_SAFE_CONTRACTS
    THEN <<Classification("APPROVAL-CAUTION-1", "Medium", "Suspicious", log.spender)>>
    ELSE <<>>

\* C10: for each Approval event whose value is the maximum uint256 the call
\* emits exactly one classification finding, chosen by the first matching case
\* (known-malicious, no bytecode, fewer than 5 transactions, not allowlisted),
\* and none for an allowlisted grantee that matches none of the first three.
C10_ERC20Classification ==
    (apTx.hash # None /\ \A g \in DOMAIN apGateway : apGateway[g] \in SteadyAnswers) =>
        LET emitted == SelectSeq(apFindings,
                                 LAMBDA f : f.alertId \in ERC20ClassificationIds)
            expected == Flatten([i \in DOMAIN apTx.approvalLogs |->
                            IF apTx.approvalLogs[i].value = MAX_UINT256
                            THEN ExpectedClassification(apTx.approvalLogs[i],
                                                        apGateway[apTx.approvalLogs[i].spender])
                            ELSE <<>>])
        IN  [i \in DOMAIN emitted |->
                Classification(emitted[i].alertId, emitted[i].severity, emitted[i].type,
                               emitted[i].metadata.spender)] = expected

NFTClassificationIds ==
    {"NFT-APPROVAL-MALICIOUS-1", "NFT-APPROVAL-SUSPICIOUS-1", "NFT-APPROVAL-SUSPICIOUS-2",
     "NFT-APPROVAL-CAUTION-1"}

\* the classification the priority order assigns to an ApprovalForAll(.., true)
\* whose operator the gateway answers for steadily
ExpectedNFTClassification(log, ans) ==
    IF toLowerCase(log.operator) \in {KNOWN_MALICIOUS_CONTRACTS[i] :
                                         i \in DOMAIN KNOWN_MALICIOUS_CONTRACTS}
    THEN <<Classification("NFT-APPROVAL-MALICIOUS-1", "Critical", "Exploit", log.operator)>>
    ELSE IF ans.code = "0x"
    THEN <<Classification("NFT-APPROVAL-SUSPICIOUS-1", "High", "Suspicious", log.operator)>>
    ELSE IF ans.txCount.n < 5
    THEN <<Classification("NFT-APPROVAL-SUSPICIOUS-2", "High", "Suspicious", log.operator)>>
    ELSE IF toLowerCase(log.operator) \notin KNOWN_SAFE_CONTRACTS
    THEN <<Classification("NFT-APPROVAL-CAUTION-1", "Medium", "Suspicious", log.operator)>>
    ELSE <<>>

NFTEmitted == SelectSeq(apFindings, LAMBDA f : f.alertId \in NFTClassificationIds)

ApprovedForAll == SelectSeq(apTx.approvalForAllLogs, LAMBDA log : log.approved)

\* C11: each ApprovalForAll event with approved = true yields exactly one NFT
\* classification finding, chosen by the priority order (none for an
\* allowlisted operator that is a contract and not new); the NFT classification
\* findings are never more than the approved = true events, and approved =
\* false events yield none.
C11_NFTClassification ==
    (apTx.hash # None /\ \A g \in DOMAIN apGateway : apGateway[g] \in SteadyAnswers) =>
        /\ Len(NFTEmitted) <= Len(ApprovedForAll)
        /\ [i \in DOMAIN NFTEmitted |->
               Classification(NFTEmitted[i].alertId, NFTEmitted[i].severity,
                              NFTEmitted[i].type, NFTEmitted[i].metadata.operator)]
           = Flatten([i \in DOMAIN ApprovedForAll |->
                        ExpectedNFTClassification(ApprovedForAll[i],
                                                  apGateway[ApprovedForAll[i].operator])])

\* no Approval value reaches 10^24 and every grantee is on the allowlist
NoRiskyGrant ==
    /\ \A i \in DOMAIN apTx.approvalLogs :
          /\ apTx.approvalLogs[i].value < HIGH_VALUE_APPROVAL
          /\ toLowerCase(apTx.approvalLogs[i].spender) \in KNOWN_SAFE_CONTRACTS
    /\ \A i \in DOMAIN apTx.approvalForAllLogs :
          toLowerCase(apTx.approvalForAllLogs[i].operator) \in KNOWN_SAFE_CONTRACTS

\* C12 as stated: a transaction without unlimited or high-value approvals whose
\* grantees are all known-safe yields an empty list, whatever its numbers of
\* approve, setApprovalForAll, transfer, transferFrom calls and traced sub-calls.
C12_CleanWhateverCalls ==
    (apTx.hash # None /\ NoRiskyGrant) => apFindings = <<>>

\* the gateway reports bytecode and at least 5 transactions for every operator
\* that is granted a full-collection approval
OperatorsEstablished ==
    \A i \in DOMAIN apTx.approvalForAllLogs :
        apTx.approvalForAllLogs[i].approved =>
            LET ans == apGateway[apTx.approvalForAllLogs[i].operator] IN
            /\ ans.code = "code" /\ ans.codeAgain = "code"
            /\ ans.txCount.ok /\ ans.txCount.n >= 5

TracedCalls ==
    Len(SelectSeq(apTx.traces, LAMBDA t : t.type = "call" /\ t.inputLength >= 10))

\* C12 amended: such a transaction yields an empty list when, in addition, it
\* has fewer than 4 approve + setApprovalForAll calls, it has no approve call
\* or else neither a transfer/transferFrom call nor more than 3 traced calls,
\* and every operator approved for all is reported as an established contract.
C12_CleanTransactions ==
    ( /\ apTx.hash # None
      /\ NoRiskyGrant
      /\ OperatorsEstablished
      /\ apTx.approveCalls + apTx.setApprovalForAllCalls < 4
      /\ \/ apTx.approveCalls = 0
         \/ /\ apTx.transferCalls = 0
            /\ apTx.transferFromCalls = 0
            /\ TracedCalls <= 3 )
    => apFindings = <<>>

\* a full-collection approval to an allowlisted, established contract was
\* handled and nothing was reported
C12_Witness ==
    /\ apTx.hash # None
    /\ NoRiskyGrant
    /\ OperatorsEstablished
    /\ Len(ApprovedForAll) = 1
    /\ apTx.setApprovalForAllCalls = 1
    /\ apFindings = <<>>

\* the findings of the checks that need the grantee's bytecode
BytecodeDependentIds ==
    {"APPROVAL-SUSPICIOUS-1", "APPROVAL-SUSPICIOUS-2",
     "NFT-APPROVAL-SUSPICIOUS-1", "NFT-APPROVAL-SUSPICIOUS-2"}

\* C13: when the gateway's bytecode lookup for an approval grantee fails, the
\* checks that depend on it (EOA, new contract) add no finding for that grantee.
C13_FailedLookupNoFinding ==
    apTx.hash # None =>
        \A i \in DOMAIN apTx.approvalForAllLogs :
            LET log == apTx.approvalForAllLogs[i] IN
            (log.approved /\ apGateway[log.operator].code = "fail"
                          /\ apGateway[log.operator].codeAgain = "fail") =>
                ~ \E j \in DOMAIN apFindings :
                     /\ apFindings[j].alertId \in BytecodeDependentIds
                     /\ apFindings[j].metadata.operator = log.operator

(***************************************************************************)
(* Properties of repeated calls                                            *)
(***************************************************************************)

C15_SlippageRange ==
    \A i \in DOMAIN pendingSwaps :
        pendingSwaps[i].amountIn > 0 =>
            /\ pendingSwaps[i].slippage.den > 0
            /\ 0 <= pendingSwaps[i].slippage.num
            /\ pendingSwaps[i].slippage.num <= pendingSwaps[i].slippage.den

\* amountIn and path as the call data of a swap carries them
CallAmountIn(tx) == IF tx.selector = "swapExactETHForTokens" THEN tx.value ELSE tx.args.a0
CallPathEmpty(tx) == tx.to \in V2Routers /\ tx.args.path = <<>>

\* no recipient, not a router, not a swap selector, or swap data that does not
\* decode (a selector of another router family, amountIn 0, empty path)
NotADecodableSwap(tx) ==
    \/ tx.to = None
    \/ tx.to \notin DEX_ROUTERS
    \/ tx.selector \notin SWAP_FUNCTIONS
    \/ ~tx.args.ok
    \/ (tx.to \in V2Routers) # (tx.selector \in {"swapExactETHForTokens",
                                                  "swapExactTokensForETH",
                                                  "swapExactTokensForTokens"})
    \/ CallAmountIn(tx) = 0
    \/ CallPathEmpty(tx)

\* C16: a call for a transaction that is not a decodable swap leaves the
\* pending-swap window exactly as it was and returns no MEV-2, MEV-3 or MEV-4.
C16_Frame ==
    [][ (mevTx' # NoTx /\ NotADecodableSwap(mevTx')) =>
          /\ pendingSwaps' = pendingSwaps
          /\ \A i \in DOMAIN mevFindings' :
                mevFindings'[i].alertId \notin {"MEV-2", "MEV-3", "MEV-4"} ]_vars

\* an undecodable swap call on a router at block 102 was handled while the
\* window held an entry of block 1 and one of block 102; both are still there
C16_Witness ==
    /\ mevTx # NoTx
    /\ NotADecodableSwap(mevTx)
    /\ mevTx.to \in DEX_ROUTERS /\ mevTx.selector \in SWAP_FUNCTIONS
    /\ mevTx.blockNumber = WINDOW_BLOCKS + 2
    /\ Len(pendingSwaps) = 2
    /\ \E i \in DOMAIN pendingSwaps : pendingSwaps[i].blockNumber = 1
    /\ \E i \in DOMAIN mevFindings : mevFindings[i].alertId = "MEV-1"

(***************************************************************************)
(* Properties of the 2FA events                                            *)
(***************************************************************************)

TfaCall == tfaCalls' = tfaCalls + 1

\* C17: a call whose transaction carries an AuthenticationFailed event as its
\* only 2FA event returns one Medium/Suspicious 2FA-FAILED-1 finding with the
\* event's reason and leaves the pending map, the 2FA-enabled set and all
\* settings unchanged.
C17_FailedEvent ==
    [][ ( /\ TfaCall
          /\ Len(tfaTx'.logs) = 1
          /\ tfaTx'.logs[1].kind = "failed" )
        => LET found == FindingsWith(tfaFindings', "2FA-FAILED-1") IN
           /\ Len(found) = 1
           /\ found[1].severity = "Medium"
           /\ found[1].type = "Suspicious"
           /\ found[1].metadata.reason = tfaTx'.logs[1].reason
           /\ found[1].metadata.operationId = tfaTx'.logs[1].operationId
           /\ pending2FATransactions' = pending2FATransactions
           /\ usersWith2FA' = usersWith2FA
           /\ user2FASettings' = user2FASettings ]_vars

\* a failed event for a pending operation was handled; the operation is still
\* pending and an earlier verification time is still in the settings
C17_Witness ==
    /\ tfaCalls > 0
    /\ Len(tfaTx.logs) = 1
    /\ tfaTx.logs[1].kind = "failed"
    /\ tfaTx.logs[1].operationId \in DOMAIN pending2FATransactions
    /\ Len(FindingsWith(tfaFindings, "2FA-FAILED-1")) = 1
    /\ \E u \in DOMAIN user2FASettings :
          /\ user2FASettings[u].lastVerification > 0
          /\ user2FASettings[u].lastVerification < now

\* the operation ids of the AuthenticationSuccessful events of a transaction
Succeeded(tx) == {tx.logs[i].operationId : i \in {j \in DOMAIN tx.logs : tx.logs[j].kind = "success"}}

\* C18: an operation id recorded from an AuthenticationRequired event is in
\* the pending map after that call and after every later call, until a
\* transaction with an AuthenticationSuccessful event for that id is handled;
\* no other event and no elapsed time removes it.
C18_PendingPersists ==
    [][ TfaCall =>
          /\ \A k \in DOMAIN pending2FATransactions :
                k \notin Succeeded(tfaTx') => k \in DOMAIN pending2FATransactions'
          /\ \A i \in DOMAIN tfaTx'.logs :
                (tfaTx'.logs[i].kind = "required"
                   /\ tfaTx'.logs[i].operationId \notin Succeeded(tfaTx'))
                => tfaTx'.logs[i].operationId \in DOMAIN pending2FATransactions' ]_vars

\* an operation recorded two calls ago is still pending after a failed event
\* for it, more than the verification window later
C18_Witness ==
    /\ tfaCalls >= 3
    /\ Len(tfaTx.logs) = 1
    /\ tfaTx.logs[1].kind = "failed"
    /\ tfaTx.logs[1].operationId \in DOMAIN pending2FATransactions
    /\ pending2FATransactions[tfaTx.logs[1].operationId].txHash # None
    /\ now >= Now0 + 3 * 2000
    /\ Cardinality(DOMAIN pending2FATransactions) = 2

(***************************************************************************)
(* Properties of the multisig findings                                     *)
(***************************************************************************)

\* C19: when W had no cache entry before the call, the call returns no
\* 'Unauthorized Multisig Access Attempt' finding for W, whoever the sender is.
C19_CacheMissSuppression ==
    [][ MsCall =>
          \A w \in {W1, W2} :
              w \notin DOMAIN multisigCache =>
                  ~ \E i \in DOMAIN msFindings' :
                       /\ msFindings'[i].alertId = "MULTISIG-SECURITY-1"
                       /\ msFindings'[i].metadata.multisigAddress = w ]_vars

\* the check a finding comes from: 1 configuration, 2 activity, 3 ownership
CheckRank(f) ==
    IF f.alertId \in {"MULTISIG-CONFIG-1", "MULTISIG-CONFIG-2"} THEN 1
    ELSE IF f.alertId \in {"MULTISIG-ACTIVITY-1", "MULTISIG-SECURITY-1"} THEN 2
    ELSE 3

\* the position of a finding's multisig in the transaction's address list
AddressRank(tx, f) ==
    CHOOSE i \in DOMAIN tx.addresses : tx.addresses[i] = f.metadata.multisigAddress

OwnershipFindings(findings, w) ==
    SelectSeq(findings, LAMBDA f : /\ f.alertId = "MULTISIG-OWNERSHIP-1"
                                   /\ f.metadata.multisigAddress = w)

\* C20 as stated: in the returned list every configuration finding precedes
\* every activity finding and every activity finding precedes every ownership
\* finding, over all touched multisigs; MULTISIG-OWNERSHIP-1 is present exactly
\* when the transaction has an owner addition and an owner removal.
C20_CheckOrder ==
    [][ (MsCall /\ \E w \in {W1, W2} : Recognized(w)) =>
          /\ \A i, j \in DOMAIN msFindings' :
                i < j => CheckRank(msFindings'[i]) <= CheckRank(msFindings'[j])
          /\ (\E i \in DOMAIN msFindings' : msFindings'[i].alertId = "MULTISIG-OWNERSHIP-1")
                <=> (msTx'.additions > 0 /\ msTx'.removals > 0) ]_vars

\* C20 amended: the list is grouped by address, in the order of the
\* transaction's addresses; inside the group of one address the findings are in
\* check order; MULTISIG-OWNERSHIP-1 occurs once for each recognized multisig
\* when the transaction has an owner addition and an owner removal, else never.
C20_CheckOrderPerAddress ==
    [][ MsCall =>
          /\ \A i, j \in DOMAIN msFindings' :
                i < j =>
                   LET a == AddressRank(msTx', msFindings'[i])
                       b == AddressRank(msTx', msFindings'[j])
                   IN  \/ a < b
                       \/ a = b /\ CheckRank(msFindings'[i]) <= CheckRank(msFindings'[j])
          /\ \A w \in {W1, W2} :
                Len(OwnershipFindings(msFindings', w)) =
                    IF Recognized(w) /\ msTx'.additions > 0 /\ msTx'.removals > 0
                    THEN 1 ELSE 0 ]_vars

\* two recognized multisigs were touched: the activity finding of the second
\* follows the ownership finding of the first
C20_Witness ==
    /\ msCalls > 0
    /\ Len(OwnershipFindings(msFindings, W1)) = 1
    /\ Len(OwnershipFindings(msFindings, W2)) = 1
    /\ \E i, j \in DOMAIN msFindings :
          /\ i < j
          /\ msFindings[i].alertId = "MULTISIG-OWNERSHIP-1"
          /\ msFindings[i].metadata.multisigAddress = W1
          /\ msFindings[j].alertId = "MULTISIG-ACTIVITY-1"
          /\ msFindings[j].metadata.multisigAddress = W2

(***************************************************************************)
(* Properties of the gas-price and slippage checks                         *)
(***************************************************************************)

\* the MEV-1 findings of the last call
MEV1Findings == SelectSeq(mevFindings, LAMBDA f : f.alertId = "MEV-1")

\* C21: for a transaction with gas price g and a reported average a > 0 the
\* call returns a Medium MEV-1 finding exactly when g >= 5 * a, equality
\* included; it returns none when the fee-data call failed or reported no average.
C21_HighGasAtFiveTimes ==
    mevTx # NoTx =>
        /\ (mevFeeData.ok /\ mevFeeData.gasPrice > 0 /\ mevTx.gasPrice > 0) =>
              /\ Len(MEV1Findings) > 0 <=> mevTx.gasPrice >= GAS_MULTIPLE * mevFeeData.gasPrice
              /\ \A i \in DOMAIN MEV1Findings : MEV1Findings[i].severity = "Medium"
        /\ (~mevFeeData.ok \/ mevFeeData.gasPrice = 0) => Len(MEV1Findings) = 0

\* the MEV-3 findings of the last call
MEV3Findings == SelectSeq(mevFindings, LAMBDA f : f.alertId = "MEV-3")

\* slippage = 1 - amountOutMin / amountIn is below 0.1% (it is 0 when amountOutMin is 0)
BelowOnePerMille(amountIn, amountOutMin) ==
    amountOutMin = 0 \/ (amountIn - amountOutMin) * 1000 < amountIn

\* C22: a call that handles a decodable swap returns a Medium MEV-3 finding
\* exactly when the slippage computed from the swap's own amounts is below
\* 0.001; so it does for amountOutMin = 0 and for amountOutMin >= amountIn,
\* whatever the pending-swap window holds.
C22_LowSlippage ==
    mevRecorded =>
        LET r == RawSwap(mevTx) IN
        /\ Len(MEV3Findings) = (IF BelowOnePerMille(r.amountIn, r.amountOutMin) THEN 1 ELSE 0)
        /\ \A i \in DOMAIN MEV3Findings :
              /\ MEV3Findings[i].severity = "Medium"
              /\ MEV3Findings[i].name = "Extremely Low Slippage Tolerance"
        /\ (r.amountOutMin = 0 \/ r.amountOutMin >= r.amountIn) => Len(MEV3Findings) = 1

\* a swap with amountOutMin above amountIn was handled while the window held
\* another swap, and MEV-3 was returned
C22_Witness ==
    /\ mevRecorded
    /\ RawSwap(mevTx).amountOutMin > RawSwap(mevTx).amountIn
    /\ Len(pendingSwaps) = 2
    /\ Len(MEV3Findings) = 1

(***************************************************************************)
(* Properties of the phishing detector                                     *)
(***************************************************************************)

\* the PHISHING-7 findings of the last call
PHISHING7Findings == SelectSeq(phFindings, LAMBDA f : f.alertId = "PHISHING-7")

\* transfer, transferFrom, approve, setApprovalForAll, delegate, multicall, batch transfer
SevenSignatures ==
    {"0xa9059cbb", "0x23b872dd", "0x095ea7b3", "0xa22cb465", "0x5c19a95c", "0xac9650d8",
     "0x2eb2c2d6"}

\* the recipient of the last call has bytecode and fewer than 5 outbound transactions
RecipientRecentlyDeployed ==
    /\ phTx.to # NoAddr
    /\ LET ans == phGateway[toLowerCase(phTx.to)] IN
       /\ ans.code \notin {"0x", "fail"}
       /\ ans.txCount.ok /\ ans.txCount.n < 5

\* C23: the call returns a High PHISHING-7 finding exactly when the recipient
\* is a recently deployed contract and the leading selector of the call data
\* is one of the seven listed signatures; any other selector gives none.
C23_SevenSelectors ==
    phTx # NoTx =>
        /\ Len(PHISHING7Findings) > 0
              <=> (RecipientRecentlyDeployed /\ phTx.data.selector \in SevenSignatures)
        /\ \A i \in DOMAIN PHISHING7Findings : PHISHING7Findings[i].severity = "High"

(***************************************************************************)
(* Properties of the pending-swap window across calls                      *)
(***************************************************************************)

\* the entries recorded for block N, in recording order
EntriesOfBlock(N) == SelectSeq(pendingSwaps, LAMBDA e : e.blockNumber = N)

\* entries a, b, c form a sandwich: same path ends and length for a and c,
\* same sender for a and c, another sender for b
Sandwich(a, b, c) ==
    /\ Len(a.tokenPath) = Len(c.tokenPath)
    /\ Head(a.tokenPath) = Head(c.tokenPath)
    /\ a.tokenPath[Len(a.tokenPath)] = c.tokenPath[Len(c.tokenPath)]
    /\ a.from = c.from
    /\ a.from # b.from

\* C24: a reported triple is not remembered as reported: a call that records
\* a further swap (a hash not yet in the window) in block N returns a MEV-2
\* finding again for every matching contiguous triple already recorded for
\* block N.
C24_ReportedAgain ==
    [][(mevRecorded' /\ ~MapHas(pendingSwaps, mevTx'.hash)) =>
          LET cur == EntriesOfBlock(mevTx'.blockNumber) IN
          \A i \in 1..(Len(cur) - 2) :
              Sandwich(cur[i], cur[i + 1], cur[i + 2]) =>
                  \E j \in DOMAIN mevFindings' :
                      /\ mevFindings'[j].alertId = "MEV-2"
                      /\ mevFindings'[j].metadata.frontrunTx = cur[i].hash
                      /\ mevFindings'[j].metadata.victimTx = cur[i + 1].hash
                      /\ mevFindings'[j].metadata.backrunTx = cur[i + 2].hash]_vars

\* the fourth swap of block 1 was handled, it completes no sandwich itself,
\* and the call returned the finding for the triple of the first three swaps
C24_Witness ==
    /\ mevRecorded
    /\ Len(EntriesOfBlock(mevTx.blockNumber)) = 4
    /\ EntriesOfBlock(mevTx.blockNumber)[4].hash = mevTx.hash
    /\ Len(MEV2Findings) = 1
    /\ MEV2Findings[1].metadata.frontrunTx = EntriesOfBlock(mevTx.blockNumber)[1].hash
    /\ MEV2Findings[1].metadata.backrunTx = EntriesOfBlock(mevTx.blockNumber)[3].hash

(***************************************************************************)
(* Properties of 2FA verification and enrolment                            *)
(***************************************************************************)

\* the AuthenticationRequired events of the transaction tx for operation k
RequiredFor(tx, k) ==
    SelectSeq(tx.logs, LAMBDA e : e.kind = "required" /\ e.operationId = k)

\* no pending entry for the event's operation exists when the event is applied
NothingPending(tx, e) ==
    /\ e.operationId \notin DOMAIN pending2FATransactions
    /\ Len(RequiredFor(tx, e.operationId)) = 0

\* the pending entry for the event's operation was requested by another user
PendingForAnother(tx, e) ==
    LET required == RequiredFor(tx, e.operationId) IN
    IF Len(required) > 0 THEN required[Len(required)].user # e.user
    ELSE /\ e.operationId \in DOMAIN pending2FATransactions
         /\ pending2FATransactions[e.operationId].from # e.user

\* the transaction was not sent by the event's user
SentByAnother(tx, e) == toLowerCase(tx.from) # toLowerCase(e.user)

\* C25: an AuthenticationSuccessful(U, K) event removes the pending entry for
\* K and sets the lastVerification of U's settings to the time of the call
\* also when nothing was pending for K, when K was requested by another user
\* and when the transaction was not sent by U.
C25_UnauthenticatedSuccess ==
    [][ TfaCall =>
          \A i \in DOMAIN tfaTx'.logs :
              LET e == tfaTx'.logs[i] IN
              ( /\ e.kind = "success"
                /\ \/ NothingPending(tfaTx', e)
                   \/ PendingForAnother(tfaTx', e)
                   \/ SentByAnother(tfaTx', e) )
              => /\ e.operationId \notin DOMAIN pending2FATransactions'
                 /\ toLowerCase(e.user) \in DOMAIN user2FASettings =>
                       user2FASettings'[toLowerCase(e.user)].lastVerification = now' ]_vars

\* a transaction sent by U3 carried the request of U3 for K and the success
\* of U1 for K: K is not pending and U1 counts as verified at the time of the call
C25_Witness ==
    /\ tfaCalls > 0
    /\ tfaTx.from = U3
    /\ \E k \in OperationIds :
          /\ tfaTx.logs = <<Required(U3, k), Successful(U1Mixed, k)>>
          /\ k \notin DOMAIN pending2FATransactions
    /\ user2FASettings[U1].lastVerification = now

\* C26: after a call at time t handled an AuthenticationSuccessful event of a
\* user U who has settings, no call at a time from t to t + 1800 returns a
\* 2FA-MISSING-1 finding for a transaction sent by U, whatever its value and
\* operation type; such a finding can appear only later than t + 1800.
C26_VerificationWindow ==
    tfaTx # NoTx =>
        \A u \in DOMAIN verifiedAt :
            ( /\ verifiedAt[u] > 0
              /\ now <= verifiedAt[u] + 1800
              /\ toLowerCase(tfaTx.from) = u )
            => Len(FindingsWith(tfaFindings, "2FA-MISSING-1")) = 0

\* exactly 1800 seconds after the success event of U1, a transaction of U1
\* at the high-risk value without any 2FA event was handled: no finding
C26_Witness ==
    /\ tfaCalls >= 2
    /\ verifiedAt[U1] > 0
    /\ now = verifiedAt[U1] + 1800
    /\ toLowerCase(tfaTx.from) = U1
    /\ tfaTx.value = HIGH_RISK_VALUE_THRESHOLD
    /\ tfaTx.logs = <<>>
    /\ tfaFindings = <<>>

\* C27: no call returns both a 2FA-MISSING-1 and a 2FA-RECOMMENDED-1 finding:
\* the first is returned only for a sender in the 2FA-enabled set, the second
\* only for a sender outside it, and a call returns at most one of each.
C27_ExclusiveFindings ==
    tfaTx # NoTx =>
        LET missing == FindingsWith(tfaFindings, "2FA-MISSING-1")
            recommended == FindingsWith(tfaFindings, "2FA-RECOMMENDED-1")
        IN  /\ ~(Len(missing) > 0 /\ Len(recommended) > 0)
            /\ Len(missing) <= 1
            /\ Len(recommended) <= 1
            /\ Len(missing) > 0 => toLowerCase(tfaTx.from) \in usersWith2FA
            /\ Len(recommended) > 0 => toLowerCase(tfaTx.from) \notin usersWith2FA

\* an enrolled sender, written in mixed case, sent a transaction at the
\* high-risk value with a high-risk selector: the finding is 2FA-MISSING-1 alone
C27_Witness ==
    /\ tfaTx # NoTx
    /\ tfaTx.from = U1Mixed
    /\ tfaTx.value = HIGH_RISK_VALUE_THRESHOLD
    /\ tfaTx.data = "0x095ea7b3"
    /\ Len(FindingsWith(tfaFindings, "2FA-MISSING-1")) = 1
    /\ Len(FindingsWith(tfaFindings, "2FA-RECOMMENDED-1")) = 0

\* the two default addresses of initializeDefaultSettings, lower-cased
DefaultAddresses == {toLowerCase(a) : a \in testAddresses}

\* C28: no call changes the 2FA-enabled set or the set of addresses with
\* settings (both stay the two default addresses) or any enabledFor or
\* valueThreshold; lastVerification is the only field that changes, and only
\* in a call whose transaction carries an AuthenticationSuccessful event of
\* that user.
C28_FixedEnrolment ==
    [][ /\ usersWith2FA = DefaultAddresses /\ usersWith2FA' = DefaultAddresses
        /\ DOMAIN user2FASettings = DefaultAddresses
        /\ DOMAIN user2FASettings' = DefaultAddresses
        /\ \A u \in DefaultAddresses :
              /\ user2FASettings'[u].enabledFor = user2FASettings[u].enabledFor
              /\ user2FASettings'[u].valueThreshold = user2FASettings[u].valueThreshold
              /\ user2FASettings'[u].lastVerification # user2FASettings[u].lastVerification
                    => \E i \in DOMAIN tfaTx'.logs :
                          /\ tfaTx'.logs[i].kind = "success"
                          /\ toLowerCase(tfaTx'.logs[i].user) = u ]_vars

\* success events of an enrolled and of an unknown user and a high-value
\* transaction of the unknown user were handled: the enrolment is the
\* constructor's, one lastVerification has moved
C28_Witness ==
    /\ tfaCalls >= 3
    /\ tfaTx.from = U3
    /\ Len(FindingsWith(tfaFindings, "2FA-RECOMMENDED-1")) = 1
    /\ user2FASettings[U1].lastVerification > 0
    /\ \E u \in DefaultAddresses : user2FASettings[u].lastVerification = 0
    /\ usersWith2FA = DefaultAddresses
    /\ DOMAIN user2FASettings = DefaultAddresses

(***************************************************************************)
(* Properties of the event-based multisig findings                         *)
(***************************************************************************)

ActivityFindings(findings, w) ==
    SelectSeq(findings, LAMBDA f : /\ f.alertId = "MULTISIG-ACTIVITY-1"
                                   /\ f.metadata.multisigAddress = w)

\* findings f and g differ at most in the multisig address they name
SameButAddress(f, g) ==
    [f EXCEPT !.metadata.multisigAddress = NoAddr] = [g EXCEPT !.metadata.multisigAddress = NoAddr]

\* the copies of one event-based finding differ only in multisigAddress
CopiesAlike(findings) ==
    \A i, j \in DOMAIN findings :
        (/\ findings[i].alertId = findings[j].alertId
         /\ findings[i].alertId \in {"MULTISIG-ACTIVITY-1", "MULTISIG-OWNERSHIP-1"})
        => SameButAddress(findings[i], findings[j])

\* C29 as stated: MULTISIG-ACTIVITY-1 (more than 2 revocation events) and
\* MULTISIG-OWNERSHIP-1 (owner addition with owner removal) are computed from
\* all logs of the transaction and returned once for each touched address
\* recognized as a multisig, the copies differing only in multisigAddress.
C29_PerAddressRepetition ==
    [][ MsCall =>
          /\ \A w \in {W1, W2} :
                /\ Len(ActivityFindings(msFindings', w)) =
                      IF Recognized(w) /\ msTx'.revocations > 2 THEN 1 ELSE 0
                /\ Len(OwnershipFindings(msFindings', w)) =
                      IF Recognized(w) /\ msTx'.additions > 0 /\ msTx'.removals > 0
                      THEN 1 ELSE 0
          /\ CopiesAlike(msFindings') ]_vars

\* the gateway answered the block-number request made for address w
HistoryRead(w) == msGateway'[w].blockNumber # "fail"

\* C29 amended: MULTISIG-OWNERSHIP-1 is returned once for each recognized
\* multisig; MULTISIG-ACTIVITY-1 is returned once for each recognized multisig
\* for which the block-number request of the history lookup was answered, and
\* not for one for which it failed; the copies differ only in multisigAddress.
C29_PerAddressWhenHistoryRead ==
    [][ MsCall =>
          /\ \A w \in {W1, W2} :
                /\ Len(ActivityFindings(msFindings', w)) =
                      IF Recognized(w) /\ HistoryRead(w) /\ msTx'.revocations > 2
                      THEN 1 ELSE 0
                /\ Len(OwnershipFindings(msFindings', w)) =
                      IF Recognized(w) /\ msTx'.additions > 0 /\ msTx'.removals > 0
                      THEN 1 ELSE 0
          /\ CopiesAlike(msFindings') ]_vars

\* a transaction with three revocations, an owner addition and an owner
\* removal touched two recognized multisigs: two copies of each finding
C29_Witness ==
    /\ msCalls > 0
    /\ msTx.revocations > 2
    /\ Len(ActivityFindings(msFindings, W1)) = 1
    /\ Len(ActivityFindings(msFindings, W2)) = 1
    /\ Len(OwnershipFindings(msFindings, W1)) = 1
    /\ Len(OwnershipFindings(msFindings, W2)) = 1

(***************************************************************************)
(* Properties of the keys of the pending-swap window                       *)
(***************************************************************************)

\* the transaction hashes of a window, in recording order
HashesOf(m) == [i \in DOMAIN m |-> m[i].hash]

\* the number of entries of window m recorded for block N
BlockCount(m, N) == Len(SelectSeq(m, LAMBDA e : e.blockNumber = N))

\* window m has an entry for hash h with block number N
RecordedFor(m, h, N) == \E i \in DOMAIN m : m[i].hash = h /\ m[i].blockNumber = N

\* the block numbers of the entries before and after the step, and of its transaction
BlocksInStep ==
    {pendingSwaps[i].blockNumber : i \in DOMAIN pendingSwaps}
    \cup {pendingSwaps'[i].blockNumber : i \in DOMAIN pendingSwaps'}
    \cup {mevTx'.blockNumber}

\* no hash has two entries, and handling a recorded hash again adds no entry
\* and keeps the recording order of the entries that stay
KeysKept ==
    /\ \A i, j \in DOMAIN pendingSwaps' :
          pendingSwaps'[i].hash = pendingSwaps'[j].hash => i = j
    /\ MapHas(pendingSwaps, mevTx'.hash) =>
          /\ Len(pendingSwaps') <= Len(pendingSwaps)
          /\ HashesOf(pendingSwaps') =
                HashesOf(SelectSeq(pendingSwaps, LAMBDA e : MapHas(pendingSwaps', e.hash)))

\* C30 as stated: the window holds one entry per hash; handling a recorded
\* hash again adds no entry and moves none; the number of entries for block N
\* is the number of distinct hashes handled for block N and not evicted, so a
\* call for block N adds one to the count of N when its hash was not yet
\* recorded for N and leaves the count of every other retained block as it was.
C30_OneEntryPerHash ==
    [][ mevRecorded' =>
          LET h == mevTx'.hash
              N == mevTx'.blockNumber
          IN  /\ KeysKept
              /\ \A M \in BlocksInStep :
                    BlockCount(pendingSwaps', M) =
                       IF M < N - 100 THEN 0
                       ELSE IF M = N
                            THEN BlockCount(pendingSwaps, N)
                                   + (IF RecordedFor(pendingSwaps, h, N) THEN 0 ELSE 1)
                            ELSE BlockCount(pendingSwaps, M) ]_vars

\* C30 amended: the window holds one entry per hash; handling a recorded hash
\* again adds no entry and moves none, but the entry takes the data of the new
\* call, its block number included; the number of entries for block N is the
\* number of distinct hashes whose latest handling was for block N and that
\* were not evicted since.
C30_OneEntryPerHashLatestBlock ==
    [][ mevRecorded' =>
          LET h == mevTx'.hash
              N == mevTx'.blockNumber
          IN  /\ KeysKept
              /\ \A M \in BlocksInStep :
                    BlockCount(pendingSwaps', M) =
                       IF M < N - 100 THEN 0
                       ELSE IF M = N
                            THEN BlockCount(pendingSwaps, N)
                                   + (IF RecordedFor(pendingSwaps, h, N) THEN 0 ELSE 1)
                            ELSE BlockCount(pendingSwaps, M)
                                   - (IF RecordedFor(pendingSwaps, h, M) THEN 1 ELSE 0) ]_vars

\* the hash recorded first was handled again after two other swaps, with a
\* later block number: its entry is still the first of three
C30_Witness ==
    /\ mevRecorded
    /\ Len(pendingSwaps) = 3
    /\ pendingSwaps[1].hash = mevTx.hash
    /\ pendingSwaps[1].blockNumber = mevTx.blockNumber
    /\ pendingSwaps[2].blockNumber < pendingSwaps[1].blockNumber
====
